---- MODULE Spec2Model ----
(***************************************************************************)
(* OracleManager (contracts/boxmeout/src/oracle.rs): oracle registry,      *)
(* market registration, attestations, consensus evaluation, admin          *)
(* multi-sig configuration and the emergency override.                     *)
(*                                                                         *)
(* Every public operation is one atomic action.  <op>_err names the panic  *)
(* a call ends in, "Ok" when it completes.  A panic rolls the whole        *)
(* invocation back: a failing call writes nothing and publishes nothing,   *)
(* so it is no step, and an action is enabled exactly on the inputs its    *)
(* call completes on.  An absent storage entry is <<>>, a present one is   *)
(* <<v>>.                                                                  *)
(***************************************************************************)
EXTENDS Integers, Sequences, FiniteSets, TLC

\* ------------------------------------------------------------------ bounds
MaxEvents == 2
MaxApprovers == 2
MaxReturns == 2

\* ------------------------------------------------------------ input domains
Addr == {"A1", "A2", "A3"}
Market == {"mA", "mB"}
Hash == {"h1", "h2"}
Times == {0, 2000, 3800, 88001, 88400}
OutcomeInputs == {0, 1, 2}
ConsensusInputs == {1, 2}
ResolutionInputs == {2000, 3800}
CooldownInputs == {1800, 3599, 3600}
SignatureInputs == {0, 1, 2, 3}
NameInputs == {"Oracle1"}
\* Who authorised the invocation: everybody (the tests' mock_all_auths), or
\* everybody but one identity.
AllAuth == Addr
Auths == {Addr} \cup {Addr \ {a} : a \in Addr}

\* ------------------------------------------------------- program constants
MAX_ORACLES == 10
DEFAULT_REQUIRED_SIGS == 2
DEFAULT_COOLDOWN == 86400
MIN_COOLDOWN == 3600
INITIAL_ACCURACY == 100

VARIABLES
    admin,               \* ADMIN_KEY
    required_consensus,  \* REQUIRED_CONSENSUS_KEY
    oracle_count,        \* ORACLE_COUNT_KEY
    oracles,             \* ("oracle"|"oracle_name"|"oracle_accuracy"|"oracle_timestamp", addr)
    mkt_res_time,        \* (MARKET_RES_TIME_KEY, market)
    attest_yes,          \* (ATTEST_COUNT_YES_KEY, market)
    attest_no,           \* (ATTEST_COUNT_NO_KEY, market)
    vote,                \* ("vote", market, oracle)
    attestation,         \* ("attestation", market, oracle)
    voters,              \* ("voters", market)
    admin_signers,       \* ADMIN_SIGNERS_KEY
    required_sigs,       \* REQUIRED_SIGNATURES_KEY
    override_cooldown,   \* OVERRIDE_COOLDOWN_KEY
    last_override,       \* LAST_OVERRIDE_TIME_KEY
    consensus_result,    \* ("consensus_result", market)
    manual_override,     \* ("manual_override", market)
    override_record,     \* ("override_record", market)
    events,              \* everything published through env.events()
    now,                 \* env.ledger().timestamp()
    returned             \* what check_consensus has returned since the last write

registry == <<admin, required_consensus, oracle_count, oracles>>
ledger == <<mkt_res_time, attest_yes, attest_no, vote, attestation, voters>>
adminCfg == <<admin_signers, required_sigs, override_cooldown>>
overrideState == <<last_override, consensus_result, manual_override, override_record>>
storage == <<registry, ledger, adminCfg, overrideState>>
vars == <<storage, events, now, returned>>

\* ------------------------------------------------------------------ helpers
None == <<>>
Some(v) == <<v>>
IsSome(opt) == opt # <<>>
Unwrap(opt) == opt[1]
UnwrapOr(opt, d) == IF opt = <<>> THEN d ELSE opt[1]

SeqsUpTo(S, n) == UNION {[1..k -> S] : k \in 0..n}

Event(topic, data) == [topic |-> topic, data |-> data]

\* env.events().publish, the last step of every call that completes.  Every
\* operation that writes publishes, so what the reads returned before it is
\* no longer the answer of the present storage.
HasRoom == Len(events) < MaxEvents

Publish(topic, data) ==
    /\ HasRoom
    /\ events' = Append(events, Event(topic, data))
    /\ returned' = <<>>
    /\ UNCHANGED now

\* ------------------------------------------------------------------- state
Init ==
    /\ admin = None
    /\ required_consensus = None
    /\ oracle_count = None
    /\ oracles = [o \in Addr |-> None]
    /\ mkt_res_time = [m \in Market |-> None]
    /\ attest_yes = [m \in Market |-> None]
    /\ attest_no = [m \in Market |-> None]
    /\ vote = [m \in Market |-> [o \in Addr |-> None]]
    /\ attestation = [m \in Market |-> [o \in Addr |-> None]]
    /\ voters = [m \in Market |-> None]
    /\ admin_signers = None
    /\ required_sigs = None
    /\ override_cooldown = None
    /\ last_override = None
    /\ consensus_result = [m \in Market |-> None]
    /\ manual_override = [m \in Market |-> None]
    /\ override_record = [m \in Market |-> None]
    /\ events = <<>>
    /\ now = 0
    /\ returned = <<>>

\* The ledger closes: the timestamp moves forward.
Tick(t) ==
    /\ t > now
    /\ now' = t
    /\ UNCHANGED <<storage, events, returned>>

\* ---------------------------------------------------------------- initialize
initialize_err(a, auth) ==
    IF a \notin auth THEN "Unauthorized" ELSE "Ok"

\* Faulty variant: the override cooldown is left as it is.
Initialize_KeepsCooldown(a, rc, auth) ==
    /\ initialize_err(a, auth) = "Ok"
    /\ admin' = Some(a)
    /\ required_consensus' = Some(rc)
    /\ oracle_count' = Some(0)
    /\ admin_signers' = Some(<<a>>)
    /\ required_sigs' = Some(DEFAULT_REQUIRED_SIGS)
    /\ last_override' = Some(0)
    /\ Publish("oracle_initialized", <<a, rc>>)
    /\ UNCHANGED <<oracles, ledger, override_cooldown, consensus_result,
                   manual_override, override_record>>

Initialize(a, rc, auth) ==
    /\ initialize_err(a, auth) = "Ok"
    /\ admin' = Some(a)
    /\ required_consensus' = Some(rc)
    /\ oracle_count' = Some(0)
    /\ admin_signers' = Some(<<a>>)
    /\ required_sigs' = Some(DEFAULT_REQUIRED_SIGS)
    /\ override_cooldown' = Some(DEFAULT_COOLDOWN)
    /\ last_override' = Some(0)
    /\ Publish("oracle_initialized", <<a, rc>>)
    /\ UNCHANGED <<oracles, ledger, consensus_result, manual_override, override_record>>

\* ----------------------------------------------------------- register_oracle
\* Faulty variant: the check on an existing entry is missing.
register_oracle_err_NoDuplicateCheck(oracle, auth) ==
    IF admin = None THEN "NotInitialized"
    ELSE IF Unwrap(admin) \notin auth THEN "Unauthorized"
    ELSE IF UnwrapOr(oracle_count, 0) >= MAX_ORACLES THEN "RegistryFull"
    ELSE "Ok"

register_oracle_err(oracle, auth) ==
    IF admin = None THEN "NotInitialized"
    ELSE IF Unwrap(admin) \notin auth THEN "Unauthorized"
    ELSE IF UnwrapOr(oracle_count, 0) >= MAX_ORACLES THEN "RegistryFull"
    ELSE IF IsSome(oracles[oracle]) THEN "AlreadyRegistered"
    ELSE "Ok"

RegisterOracle(oracle, oracle_name, auth) ==
    /\ register_oracle_err(oracle, auth) = "Ok"
    /\ oracles' = [oracles EXCEPT ![oracle] =
           Some([registered |-> TRUE, name |-> oracle_name,
                 accuracy |-> INITIAL_ACCURACY, timestamp |-> now])]
    /\ oracle_count' = Some(UnwrapOr(oracle_count, 0) + 1)
    /\ Publish("oracle_registered", <<oracle, oracle_name, now>>)
    /\ UNCHANGED <<admin, required_consensus, ledger, adminCfg, overrideState>>

\* ----------------------------------------------------------- register_market
register_market_err(auth) ==
    IF admin = None THEN "NotInitialized"
    ELSE IF Unwrap(admin) \notin auth THEN "Unauthorized"
    ELSE "Ok"

\* Faulty variant: the market's voter list is emptied along with the counters.
RegisterMarket_ClearsVoters(market_id, resolution_time, auth) ==
    /\ register_market_err(auth) = "Ok"
    /\ mkt_res_time' = [mkt_res_time EXCEPT ![market_id] = Some(resolution_time)]
    /\ attest_yes' = [attest_yes EXCEPT ![market_id] = Some(0)]
    /\ attest_no' = [attest_no EXCEPT ![market_id] = Some(0)]
    /\ voters' = [voters EXCEPT ![market_id] = None]
    /\ Publish("market_registered", <<market_id, resolution_time>>)
    /\ UNCHANGED <<registry, vote, attestation, adminCfg, overrideState>>

\* Faulty variant: the market's attestation records are dropped.
RegisterMarket_ClearsAttestations(market_id, resolution_time, auth) ==
    /\ register_market_err(auth) = "Ok"
    /\ mkt_res_time' = [mkt_res_time EXCEPT ![market_id] = Some(resolution_time)]
    /\ attest_yes' = [attest_yes EXCEPT ![market_id] = Some(0)]
    /\ attest_no' = [attest_no EXCEPT ![market_id] = Some(0)]
    /\ attestation' = [attestation EXCEPT ![market_id] = [o \in Addr |-> None]]
    /\ Publish("market_registered", <<market_id, resolution_time>>)
    /\ UNCHANGED <<registry, vote, voters, adminCfg, overrideState>>

RegisterMarket(market_id, resolution_time, auth) ==
    /\ register_market_err(auth) = "Ok"
    /\ mkt_res_time' = [mkt_res_time EXCEPT ![market_id] = Some(resolution_time)]
    /\ attest_yes' = [attest_yes EXCEPT ![market_id] = Some(0)]
    /\ attest_no' = [attest_no EXCEPT ![market_id] = Some(0)]
    /\ Publish("market_registered", <<market_id, resolution_time>>)
    /\ UNCHANGED <<registry, vote, attestation, voters, adminCfg, overrideState>>

\* ------------------------------------------------------------------- reads
get_market_resolution_time(market_id) == mkt_res_time[market_id]

get_attestation_counts(market_id) ==
    <<UnwrapOr(attest_yes[market_id], 0), UnwrapOr(attest_no[market_id], 0)>>

get_attestation(market_id, oracle) == attestation[market_id][oracle]

\* -------------------------------------------------------- submit_attestation
\* Faulty variant: check 5, on an existing vote, is missing.
submit_attestation_err_NoDuplicateCheck(oracle, market_id, attestation_result, auth) ==
    IF oracle \notin auth THEN "Unauthorized"
    ELSE IF ~IsSome(oracles[oracle]) THEN "NotRegistered"
    ELSE IF mkt_res_time[market_id] = None THEN "MarketNotRegistered"
    ELSE IF now < Unwrap(mkt_res_time[market_id]) THEN "TooEarly"
    ELSE IF attestation_result > 1 THEN "InvalidOutcome"
    ELSE "Ok"

\* Faulty variant: check 3 also refuses at the resolution time itself.
submit_attestation_err_StrictlyAfter(oracle, market_id, attestation_result, auth) ==
    IF oracle \notin auth THEN "Unauthorized"
    ELSE IF ~IsSome(oracles[oracle]) THEN "NotRegistered"
    ELSE IF mkt_res_time[market_id] = None THEN "MarketNotRegistered"
    ELSE IF now <= Unwrap(mkt_res_time[market_id]) THEN "TooEarly"
    ELSE IF attestation_result > 1 THEN "InvalidOutcome"
    ELSE IF IsSome(vote[market_id][oracle]) THEN "DuplicateVote"
    ELSE "Ok"

\* Faulty variant: check 4, on the outcome, is missing.
submit_attestation_err_NoOutcomeCheck(oracle, market_id, attestation_result, auth) ==
    IF oracle \notin auth THEN "Unauthorized"
    ELSE IF ~IsSome(oracles[oracle]) THEN "NotRegistered"
    ELSE IF mkt_res_time[market_id] = None THEN "MarketNotRegistered"
    ELSE IF now < Unwrap(mkt_res_time[market_id]) THEN "TooEarly"
    ELSE IF IsSome(vote[market_id][oracle]) THEN "DuplicateVote"
    ELSE "Ok"

\* Faulty variant: check 2, on the oracle's registration, is missing.
submit_attestation_err_NoRegistrationCheck(oracle, market_id, attestation_result, auth) ==
    IF oracle \notin auth THEN "Unauthorized"
    ELSE IF mkt_res_time[market_id] = None THEN "MarketNotRegistered"
    ELSE IF now < Unwrap(mkt_res_time[market_id]) THEN "TooEarly"
    ELSE IF attestation_result > 1 THEN "InvalidOutcome"
    ELSE IF IsSome(vote[market_id][oracle]) THEN "DuplicateVote"
    ELSE "Ok"

submit_attestation_err(oracle, market_id, attestation_result, auth) ==
    IF oracle \notin auth THEN "Unauthorized"
    ELSE IF ~IsSome(oracles[oracle]) THEN "NotRegistered"
    ELSE IF mkt_res_time[market_id] = None THEN "MarketNotRegistered"
    ELSE IF now < Unwrap(mkt_res_time[market_id]) THEN "TooEarly"
    ELSE IF attestation_result > 1 THEN "InvalidOutcome"
    ELSE IF IsSome(vote[market_id][oracle]) THEN "DuplicateVote"
    ELSE "Ok"

\* Faulty variant of step 9: every vote is counted as a YES.
UpdateAttestationCount_AlwaysYes(market_id, attestation_result) ==
    /\ attest_yes' = [attest_yes EXCEPT ![market_id] =
           Some(UnwrapOr(attest_yes[market_id], 0) + 1)]
    /\ UNCHANGED attest_no

\* Step 9: the counter of the outcome goes up by one.
\* Faulty variant: the counter is written as 1, whatever it was.
UpdateAttestationCount_FromZero(market_id, attestation_result) ==
    IF attestation_result = 1
    THEN /\ attest_yes' = [attest_yes EXCEPT ![market_id] = Some(1)]
         /\ UNCHANGED attest_no
    ELSE /\ attest_no' = [attest_no EXCEPT ![market_id] = Some(1)]
         /\ UNCHANGED attest_yes

UpdateAttestationCount(market_id, attestation_result) ==
    IF attestation_result = 1
    THEN /\ attest_yes' = [attest_yes EXCEPT ![market_id] =
                Some(UnwrapOr(attest_yes[market_id], 0) + 1)]
         /\ UNCHANGED attest_no
    ELSE /\ attest_no' = [attest_no EXCEPT ![market_id] =
                Some(UnwrapOr(attest_no[market_id], 0) + 1)]
         /\ UNCHANGED attest_yes

\* Faulty variant of the call: once the vote is in, the outcome that
\* check_consensus reports is stored as the market's consensus result.
SubmitAttestation_Finalizes(oracle, market_id, attestation_result, auth) ==
    /\ submit_attestation_err(oracle, market_id, attestation_result, auth) = "Ok"
    /\ vote' = [vote EXCEPT ![market_id][oracle] = Some(attestation_result)]
    /\ attestation' = [attestation EXCEPT ![market_id][oracle] =
           Some([attestor |-> oracle, outcome |-> attestation_result,
                 timestamp |-> now])]
    /\ voters' = [voters EXCEPT ![market_id] =
           Some(Append(UnwrapOr(voters[market_id], <<>>), oracle))]
    /\ UpdateAttestationCount(market_id, attestation_result)
    /\ consensus_result' = [consensus_result EXCEPT ![market_id] = Some(attestation_result)]
    /\ Publish("AttestationSubmitted",
               <<market_id, oracle, attestation_result>>)
    /\ UNCHANGED <<registry, mkt_res_time, adminCfg, last_override, manual_override,
                   override_record>>

\* The evidence hash (_data_hash) is never read and is left out of the inputs.
\* Faulty variant of the call: the oracle is put at the head of the voter
\* list.
SubmitAttestation_Prepends(oracle, market_id, attestation_result, auth) ==
    /\ submit_attestation_err(oracle, market_id, attestation_result, auth) = "Ok"
    /\ vote' = [vote EXCEPT ![market_id][oracle] = Some(attestation_result)]
    /\ attestation' = [attestation EXCEPT ![market_id][oracle] =
           Some([attestor |-> oracle, outcome |-> attestation_result,
                 timestamp |-> now])]
    /\ voters' = [voters EXCEPT ![market_id] =
           Some(<<oracle>> \o UnwrapOr(voters[market_id], <<>>))]
    /\ UpdateAttestationCount(market_id, attestation_result)
    /\ Publish("AttestationSubmitted",
               <<market_id, oracle, attestation_result>>)
    /\ UNCHANGED <<registry, mkt_res_time, adminCfg, overrideState>>

SubmitAttestation(oracle, market_id, attestation_result, auth) ==
    /\ submit_attestation_err(oracle, market_id, attestation_result, auth) = "Ok"
    /\ vote' = [vote EXCEPT ![market_id][oracle] = Some(attestation_result)]
    /\ attestation' = [attestation EXCEPT ![market_id][oracle] =
           Some([attestor |-> oracle, outcome |-> attestation_result,
                 timestamp |-> now])]
    /\ voters' = [voters EXCEPT ![market_id] =
           Some(Append(UnwrapOr(voters[market_id], <<>>), oracle))]
    /\ UpdateAttestationCount(market_id, attestation_result)
    /\ Publish("AttestationSubmitted",
               <<market_id, oracle, attestation_result>>)
    /\ UNCHANGED <<registry, mkt_res_time, adminCfg, overrideState>>

\* ----------------------------------------------------------- check_consensus
RECURSIVE CountVotes(_, _, _, _, _)
CountVotes(market_id, vs, i, yes_votes, no_votes) ==
    IF i > Len(vs) THEN <<yes_votes, no_votes>>
    ELSE IF UnwrapOr(vote[market_id][vs[i]], 0) = 1
         THEN CountVotes(market_id, vs, i + 1, yes_votes + 1, no_votes)
         ELSE CountVotes(market_id, vs, i + 1, yes_votes, no_votes + 1)

\* Faulty variants of step 4: a side needs more votes than the threshold; a
\* tie at or above the threshold goes to YES.
check_consensus_AboveThreshold(market_id) ==
    LET vs == UnwrapOr(voters[market_id], <<>>)
        threshold == UnwrapOr(required_consensus, 0)
    IN  IF Len(vs) < threshold THEN <<FALSE, 0>>
        ELSE LET c == CountVotes(market_id, vs, 1, 0, 0)
                 yes_votes == c[1]
                 no_votes == c[2]
             IN  IF yes_votes > threshold /\ yes_votes > no_votes THEN <<TRUE, 1>>
                 ELSE IF no_votes > threshold /\ no_votes > yes_votes THEN <<TRUE, 0>>
                 ELSE <<FALSE, 0>>

check_consensus_TieToYes(market_id) ==
    LET vs == UnwrapOr(voters[market_id], <<>>)
        threshold == UnwrapOr(required_consensus, 0)
    IN  IF Len(vs) < threshold THEN <<FALSE, 0>>
        ELSE LET c == CountVotes(market_id, vs, 1, 0, 0)
                 yes_votes == c[1]
                 no_votes == c[2]
             IN  IF yes_votes >= threshold /\ yes_votes >= no_votes THEN <<TRUE, 1>>
                 ELSE IF no_votes >= threshold /\ no_votes > yes_votes THEN <<TRUE, 0>>
                 ELSE <<FALSE, 0>>

check_consensus(market_id) ==
    LET vs == UnwrapOr(voters[market_id], <<>>)
        threshold == UnwrapOr(required_consensus, 0)
    IN  IF Len(vs) < threshold THEN <<FALSE, 0>>
        ELSE LET c == CountVotes(market_id, vs, 1, 0, 0)
                 yes_votes == c[1]
                 no_votes == c[2]
             IN  IF yes_votes >= threshold /\ yes_votes > no_votes THEN <<TRUE, 1>>
                 ELSE IF no_votes >= threshold /\ no_votes > yes_votes THEN <<TRUE, 0>>
                 ELSE IF yes_votes >= threshold /\ no_votes >= threshold
                         /\ yes_votes = no_votes THEN <<FALSE, 0>>
                 ELSE <<FALSE, 0>>

\* Faulty variant of the call: it also stores the outcome it reports as the
\* market's consensus result.
CheckConsensus_StoresResult(market_id) ==
    /\ Len(returned) < MaxReturns
    /\ returned' = Append(returned, [market_id |-> market_id,
                                      result |-> check_consensus(market_id)])
    /\ consensus_result' = [consensus_result EXCEPT
           ![market_id] = Some(check_consensus(market_id)[2])]
    /\ UNCHANGED <<registry, ledger, adminCfg, last_override, manual_override,
                   override_record, events, now>>

\* The call: it reads and returns, and neither writes nor publishes.
CheckConsensus(market_id) ==
    /\ Len(returned) < MaxReturns
    /\ returned' = Append(returned, [market_id |-> market_id,
                                      result |-> check_consensus(market_id)])
    /\ UNCHANGED <<storage, events, now>>

\* None stands for the panic "Consensus result not found".
get_consensus_result(market_id) == consensus_result[market_id]

\* ------------------------------------------------------------ admin multi-sig
RECURSIVE IsAdminFrom(_, _, _)
IsAdminFrom(signers, who, i) ==
    IF i > Len(signers) THEN FALSE
    ELSE IF signers[i] = who THEN TRUE
    ELSE IsAdminFrom(signers, who, i + 1)

IsAdmin(signers, who) == IsAdminFrom(signers, who, 1)

\* Faulty variant: the check on new_admin being a signer already is missing.
add_admin_signer_err_NoDuplicateCheck(caller, new_admin, auth) ==
    IF caller \notin auth THEN "Unauthorized"
    ELSE IF admin_signers = None THEN "NotInitialized"
    ELSE IF ~IsAdmin(Unwrap(admin_signers), caller) THEN "NotAdmin"
    ELSE "Ok"

add_admin_signer_err(caller, new_admin, auth) ==
    IF caller \notin auth THEN "Unauthorized"
    ELSE IF admin_signers = None THEN "NotInitialized"
    ELSE IF ~IsAdmin(Unwrap(admin_signers), caller) THEN "NotAdmin"
    ELSE IF IsAdmin(Unwrap(admin_signers), new_admin) THEN "AlreadyAdmin"
    ELSE "Ok"

AddAdminSigner(caller, new_admin, auth) ==
    /\ add_admin_signer_err(caller, new_admin, auth) = "Ok"
    /\ admin_signers' = Some(Append(Unwrap(admin_signers), new_admin))
    /\ Publish("admin_signer_added", <<new_admin>>)
    /\ UNCHANGED <<registry, ledger, required_sigs, override_cooldown, overrideState>>

\* Faulty variant: zero is not refused.
set_required_signatures_err_NoZeroCheck(caller, n, auth) ==
    IF caller \notin auth THEN "Unauthorized"
    ELSE IF admin_signers = None THEN "NotInitialized"
    ELSE IF ~IsAdmin(Unwrap(admin_signers), caller) THEN "NotAdmin"
    ELSE IF n > Len(Unwrap(admin_signers)) THEN "InvalidValue"
    ELSE "Ok"

\* Faulty variant: the number is not compared with the number of signers.
set_required_signatures_err_NoUpperBound(caller, n, auth) ==
    IF caller \notin auth THEN "Unauthorized"
    ELSE IF admin_signers = None THEN "NotInitialized"
    ELSE IF ~IsAdmin(Unwrap(admin_signers), caller) THEN "NotAdmin"
    ELSE IF n = 0 THEN "InvalidValue"
    ELSE "Ok"

set_required_signatures_err(caller, n, auth) ==
    IF caller \notin auth THEN "Unauthorized"
    ELSE IF admin_signers = None THEN "NotInitialized"
    ELSE IF ~IsAdmin(Unwrap(admin_signers), caller) THEN "NotAdmin"
    ELSE IF n = 0 \/ n > Len(Unwrap(admin_signers)) THEN "InvalidValue"
    ELSE "Ok"

SetRequiredSignatures(caller, n, auth) ==
    /\ set_required_signatures_err(caller, n, auth) = "Ok"
    /\ required_sigs' = Some(n)
    /\ Publish("required_signatures_updated", <<n>>)
    /\ UNCHANGED <<registry, ledger, admin_signers, override_cooldown, overrideState>>

\* Faulty variant: there is no minimum.
set_override_cooldown_err_NoMinimum(caller, cooldown_seconds, auth) ==
    IF caller \notin auth THEN "Unauthorized"
    ELSE IF admin_signers = None THEN "NotInitialized"
    ELSE IF ~IsAdmin(Unwrap(admin_signers), caller) THEN "NotAdmin"
    ELSE "Ok"

set_override_cooldown_err(caller, cooldown_seconds, auth) ==
    IF caller \notin auth THEN "Unauthorized"
    ELSE IF admin_signers = None THEN "NotInitialized"
    ELSE IF ~IsAdmin(Unwrap(admin_signers), caller) THEN "NotAdmin"
    ELSE IF cooldown_seconds < MIN_COOLDOWN THEN "TooShort"
    ELSE "Ok"

\* Faulty variant: the new cooldown is stored and no event is published.
SetOverrideCooldown_NoEvent(caller, cooldown_seconds, auth) ==
    /\ set_override_cooldown_err(caller, cooldown_seconds, auth) = "Ok"
    /\ override_cooldown' = Some(cooldown_seconds)
    /\ returned' = <<>>
    /\ UNCHANGED <<registry, ledger, admin_signers, required_sigs, overrideState,
                   events, now>>

SetOverrideCooldown(caller, cooldown_seconds, auth) ==
    /\ set_override_cooldown_err(caller, cooldown_seconds, auth) = "Ok"
    /\ override_cooldown' = Some(cooldown_seconds)
    /\ Publish("override_cooldown_updated", <<cooldown_seconds>>)
    /\ UNCHANGED <<registry, ledger, admin_signers, required_sigs, overrideState>>

get_admin_signers == UnwrapOr(admin_signers, <<>>)
get_required_signatures == UnwrapOr(required_sigs, DEFAULT_REQUIRED_SIGS)
get_override_cooldown == UnwrapOr(override_cooldown, DEFAULT_COOLDOWN)
get_last_override_time == UnwrapOr(last_override, 0)

\* --------------------------------------------------------- emergency_override
\* Faulty variants of the steps below, each with one check or write changed.
\* The properties further down are also checked against them.
RECURSIVE ApproverLoop_NoAdminCheck(_, _, _, _, _)
ApproverLoop_NoAdminCheck(approvers, signers, auth, i, valid_approver_count) ==
    IF i > Len(approvers) THEN [err |-> "Ok", count |-> valid_approver_count]
    ELSE IF approvers[i] \notin auth
         THEN [err |-> "Unauthorized", count |-> valid_approver_count]
    ELSE ApproverLoop_NoAdminCheck(approvers, signers, auth, i + 1,
                                   valid_approver_count + 1)

RECURSIVE ApproverLoop_NoAuth(_, _, _, _, _)
ApproverLoop_NoAuth(approvers, signers, auth, i, valid_approver_count) ==
    IF i > Len(approvers) THEN [err |-> "Ok", count |-> valid_approver_count]
    ELSE IF ~IsAdmin(signers, approvers[i])
         THEN [err |-> "InvalidApprover", count |-> valid_approver_count]
    ELSE ApproverLoop_NoAuth(approvers, signers, auth, i + 1, valid_approver_count + 1)

CooldownActive_OffByOne(last_override_time, cooldown_period, current_time) ==
    last_override_time > 0 /\ (current_time - last_override_time) <= cooldown_period

StoreConsensusResult_KeepExisting(market_id, forced_outcome) ==
    consensus_result' =
        IF consensus_result[market_id] = None
        THEN [consensus_result EXCEPT ![market_id] = Some(forced_outcome)]
        ELSE consensus_result

StoreManualOverride_Skipped(market_id) ==
    UNCHANGED manual_override

OverrideRecord_StaleTimestamp(approvers, market_id, forced_outcome, justification_hash, current_time) ==
    [market_id |-> market_id, forced_outcome |-> forced_outcome,
     justification_hash |-> justification_hash, approvers |-> approvers,
     timestamp |-> get_last_override_time]

\* Step 4: the loop over the approvers.  Each one must have authorised the
\* invocation and be found in admin_signers; the counter goes up once per
\* iteration that gets through both.
RECURSIVE ApproverLoop(_, _, _, _, _)
ApproverLoop(approvers, signers, auth, i, valid_approver_count) ==
    IF i > Len(approvers) THEN [err |-> "Ok", count |-> valid_approver_count]
    ELSE IF approvers[i] \notin auth
         THEN [err |-> "Unauthorized", count |-> valid_approver_count]
    ELSE IF ~IsAdmin(signers, approvers[i])
         THEN [err |-> "InvalidApprover", count |-> valid_approver_count]
    ELSE ApproverLoop(approvers, signers, auth, i + 1, valid_approver_count + 1)

\* Step 6: the cooldown test on the global clock.
CooldownActive(last_override_time, cooldown_period, current_time) ==
    last_override_time > 0 /\ (current_time - last_override_time) < cooldown_period

\* Faulty variant: step 1, the test of the outcome, is missing.
emergency_override_err_NoOutcomeCheck(approvers, market_id, forced_outcome, auth) ==
    IF admin_signers = None THEN "NotInitialized"
    ELSE IF Len(approvers) < UnwrapOr(required_sigs, DEFAULT_REQUIRED_SIGS)
         THEN "InsufficientApprovers"
    ELSE LET loop == ApproverLoop(approvers, Unwrap(admin_signers), auth, 1, 0) IN
         IF loop.err # "Ok" THEN loop.err
         ELSE IF loop.count # Len(approvers) THEN "DuplicateApprover"
         ELSE IF CooldownActive(UnwrapOr(last_override, 0),
                                UnwrapOr(override_cooldown, DEFAULT_COOLDOWN), now)
              THEN "CooldownActive"
         ELSE IF mkt_res_time[market_id] = None THEN "MarketNotRegistered"
         ELSE "Ok"

\* Faulty variant: the market is looked up before the cooldown is tested.
emergency_override_err_MarketFirst(approvers, market_id, forced_outcome, auth) ==
    IF forced_outcome > 1 THEN "InvalidOutcome"
    ELSE IF admin_signers = None THEN "NotInitialized"
    ELSE IF Len(approvers) < UnwrapOr(required_sigs, DEFAULT_REQUIRED_SIGS)
         THEN "InsufficientApprovers"
    ELSE LET loop == ApproverLoop(approvers, Unwrap(admin_signers), auth, 1, 0) IN
         IF loop.err # "Ok" THEN loop.err
         ELSE IF loop.count # Len(approvers) THEN "DuplicateApprover"
         ELSE IF mkt_res_time[market_id] = None THEN "MarketNotRegistered"
         ELSE IF CooldownActive(UnwrapOr(last_override, 0),
                                UnwrapOr(override_cooldown, DEFAULT_COOLDOWN), now)
              THEN "CooldownActive"
         ELSE "Ok"

\* Steps 1 to 7, in the order of the code.  After the loop the counter equals
\* the length of the list, so the "Duplicate approvers detected" test that
\* follows it compares two equal numbers.
emergency_override_err(approvers, market_id, forced_outcome, auth) ==
    IF forced_outcome > 1 THEN "InvalidOutcome"
    ELSE IF admin_signers = None THEN "NotInitialized"
    ELSE IF Len(approvers) < UnwrapOr(required_sigs, DEFAULT_REQUIRED_SIGS)
         THEN "InsufficientApprovers"
    ELSE LET loop == ApproverLoop(approvers, Unwrap(admin_signers), auth, 1, 0) IN
         IF loop.err # "Ok" THEN loop.err
         ELSE IF loop.count # Len(approvers) THEN "DuplicateApprover"
         ELSE IF CooldownActive(UnwrapOr(last_override, 0),
                                UnwrapOr(override_cooldown, DEFAULT_COOLDOWN), now)
              THEN "CooldownActive"
         ELSE IF mkt_res_time[market_id] = None THEN "MarketNotRegistered"
         ELSE "Ok"

\* Step 8: the consensus result is set, whatever was there.
StoreConsensusResult(market_id, forced_outcome) ==
    consensus_result' = [consensus_result EXCEPT ![market_id] = Some(forced_outcome)]

\* Step 9: the market is flagged as manually overridden.
StoreManualOverride(market_id) ==
    manual_override' = [manual_override EXCEPT ![market_id] = Some(TRUE)]

\* Step 10: the record, stored under the market's key.
OverrideRecord(approvers, market_id, forced_outcome, justification_hash, current_time) ==
    [market_id |-> market_id, forced_outcome |-> forced_outcome,
     justification_hash |-> justification_hash, approvers |-> approvers,
     timestamp |-> current_time]

\* Faulty variant of the call: the tally counters of the market are set back
\* to zero.
EmergencyOverride_ResetsCounters(approvers, market_id, forced_outcome, justification_hash, auth) ==
    /\ emergency_override_err(approvers, market_id, forced_outcome, auth) = "Ok"
    /\ StoreConsensusResult(market_id, forced_outcome)
    /\ StoreManualOverride(market_id)
    /\ override_record' = [override_record EXCEPT ![market_id] =
           Some(OverrideRecord(approvers, market_id, forced_outcome,
                               justification_hash, now))]
    /\ last_override' = Some(now)
    /\ attest_yes' = [attest_yes EXCEPT ![market_id] = Some(0)]
    /\ attest_no' = [attest_no EXCEPT ![market_id] = Some(0)]
    /\ Publish("EmergencyOverride",
               <<market_id, forced_outcome, justification_hash, approvers, now>>)
    /\ UNCHANGED <<registry, mkt_res_time, vote, attestation, voters, adminCfg>>

EmergencyOverride(approvers, market_id, forced_outcome, justification_hash, auth) ==
    /\ emergency_override_err(approvers, market_id, forced_outcome, auth) = "Ok"
    /\ StoreConsensusResult(market_id, forced_outcome)
    /\ StoreManualOverride(market_id)
    /\ override_record' = [override_record EXCEPT ![market_id] =
           Some(OverrideRecord(approvers, market_id, forced_outcome,
                               justification_hash, now))]
    /\ last_override' = Some(now)
    /\ Publish("EmergencyOverride",
               <<market_id, forced_outcome, justification_hash, approvers, now>>)
    /\ UNCHANGED <<registry, ledger, adminCfg>>

get_override_record(market_id) == override_record[market_id]
is_manual_override(market_id) == UnwrapOr(manual_override[market_id], FALSE)

\* ------------------------------------------------------------ specification
ApproverLists == SeqsUpTo(Addr, MaxApprovers)

\* The contract as deployed: nothing stored yet.
Next ==
    \/ \E t \in Times : Tick(t)
    \/ HasRoom /\ \E a \in Addr, rc \in ConsensusInputs, auth \in Auths : Initialize(a, rc, auth)
    \/ HasRoom /\ \E o \in Addr, n \in NameInputs, auth \in Auths : RegisterOracle(o, n, auth)
    \/ HasRoom /\ \E m \in Market, rt \in ResolutionInputs, auth \in Auths : RegisterMarket(m, rt, auth)
    \/ HasRoom /\ \E o \in Addr, m \in Market, r \in OutcomeInputs, auth \in Auths :
           SubmitAttestation(o, m, r, auth)
    \/ HasRoom /\ \E c \in Addr, a \in Addr, auth \in Auths : AddAdminSigner(c, a, auth)
    \/ HasRoom /\ \E c \in Addr, n \in SignatureInputs, auth \in Auths : SetRequiredSignatures(c, n, auth)
    \/ HasRoom /\ \E c \in Addr, s \in CooldownInputs, auth \in Auths : SetOverrideCooldown(c, s, auth)
    \/ HasRoom /\ \E ap \in ApproverLists, m \in Market, o \in OutcomeInputs, h \in Hash, auth \in Auths :
           EmergencyOverride(ap, m, o, h, auth)
    \/ \E m \in Market : CheckConsensus(m)

Spec == Init /\ [][Next]_vars

\* The setup of the override tests of oracle_test.rs, with an oracle
\* registered as well and a consensus threshold of one:
\* initialize(A1, 1); add_admin_signer(A1, A2); register_oracle(A3);
\* register_market(mA, 2000), all at timestamp 0; then the ledger is set to
\* 2000.  A3 is no admin signer; mB is not registered.  The event log starts
\* empty: it holds what is published from here on.
InitOverride ==
    /\ admin = Some("A1")
    /\ required_consensus = Some(1)
    /\ oracle_count = Some(1)
    /\ oracles = [o \in Addr |->
           IF o = "A3" THEN Some([registered |-> TRUE, name |-> "Oracle1",
                                  accuracy |-> INITIAL_ACCURACY, timestamp |-> 0])
           ELSE None]
    /\ mkt_res_time = [m \in Market |-> IF m = "mA" THEN Some(2000) ELSE None]
    /\ attest_yes = [m \in Market |-> IF m = "mA" THEN Some(0) ELSE None]
    /\ attest_no = [m \in Market |-> IF m = "mA" THEN Some(0) ELSE None]
    /\ vote = [m \in Market |-> [o \in Addr |-> None]]
    /\ attestation = [m \in Market |-> [o \in Addr |-> None]]
    /\ voters = [m \in Market |-> None]
    /\ admin_signers = Some(<<"A1", "A2">>)
    /\ required_sigs = Some(DEFAULT_REQUIRED_SIGS)
    /\ override_cooldown = Some(DEFAULT_COOLDOWN)
    /\ last_override = Some(0)
    /\ consensus_result = [m \in Market |-> None]
    /\ manual_override = [m \in Market |-> None]
    /\ override_record = [m \in Market |-> None]
    /\ events = <<>>
    /\ now = 2000
    /\ returned = <<>>

\* Every operation that writes, with emergency_override called on every input
\* and the other operations called with everybody's authorisation.
Calls ==
    \/ HasRoom /\ \E a \in {"A1", "A3"} : Initialize(a, 1, AllAuth)
    \/ HasRoom /\ \E o \in {"A2"} : RegisterOracle(o, "Oracle1", AllAuth)
    \/ HasRoom /\ \E m \in Market : RegisterMarket(m, 2000, AllAuth)
    \/ HasRoom /\ \E o \in {"A3"}, m \in Market, r \in {0, 1} : SubmitAttestation(o, m, r, AllAuth)
    \/ HasRoom /\ \E c \in Addr, a \in Addr : AddAdminSigner(c, a, AllAuth)
    \/ HasRoom /\ \E c \in Addr, n \in SignatureInputs : SetRequiredSignatures(c, n, AllAuth)
    \/ HasRoom /\ \E c \in Addr, s \in CooldownInputs : SetOverrideCooldown(c, s, AllAuth)
    \/ HasRoom /\ \E ap \in ApproverLists, m \in Market, o \in OutcomeInputs, auth \in Auths :
           \E h \in Hash : EmergencyOverride(ap, m, o, h, auth)

\* The calls, and the ledger moving on to the time the default cooldown ends.
NextOverride ==
    \/ \E t \in {2000 + DEFAULT_COOLDOWN} : Tick(t)
    \/ Calls

SpecOverride == InitOverride /\ [][NextOverride]_vars

\* The setup of the emergency_override tests of oracle_test.rs, driven by the
\* calls that change what the checks of emergency_override read: the override
\* of the tests' two approvers, the registration of the second market, the
\* three admin setters by the administrator, and the ledger moving on to the
\* time the default cooldown ends.
NextOrder ==
    \/ \E t \in {2000 + DEFAULT_COOLDOWN} : Tick(t)
    \/ HasRoom /\ \E m \in Market, o \in OutcomeInputs :
           EmergencyOverride(<<"A1", "A2">>, m, o, "h1", AllAuth)
    \/ HasRoom /\ RegisterMarket("mB", 2000, AllAuth)
    \/ HasRoom /\ \E a \in Addr : AddAdminSigner("A1", a, AllAuth)
    \/ HasRoom /\ \E n \in SignatureInputs : SetRequiredSignatures("A1", n, AllAuth)
    \/ HasRoom /\ \E sec \in CooldownInputs : SetOverrideCooldown("A1", sec, AllAuth)

SpecOrder == InitOverride /\ [][NextOrder]_vars

\* The contract right after initialize(A1, 2) at timestamp 0, as every test
\* of oracle_test.rs starts: A1 is the administrator and the one admin
\* signer, two signatures are required, nothing is registered.
InitAdmin ==
    /\ admin = Some("A1")
    /\ required_consensus = Some(2)
    /\ oracle_count = Some(0)
    /\ oracles = [o \in Addr |-> None]
    /\ mkt_res_time = [m \in Market |-> None]
    /\ attest_yes = [m \in Market |-> None]
    /\ attest_no = [m \in Market |-> None]
    /\ vote = [m \in Market |-> [o \in Addr |-> None]]
    /\ attestation = [m \in Market |-> [o \in Addr |-> None]]
    /\ voters = [m \in Market |-> None]
    /\ admin_signers = Some(<<"A1">>)
    /\ required_sigs = Some(DEFAULT_REQUIRED_SIGS)
    /\ override_cooldown = Some(DEFAULT_COOLDOWN)
    /\ last_override = Some(0)
    /\ consensus_result = [m \in Market |-> None]
    /\ manual_override = [m \in Market |-> None]
    /\ override_record = [m \in Market |-> None]
    /\ events = <<>>
    /\ now = 0
    /\ returned = <<>>

\* The admin operations, the registration of a market and the override, with
\* everybody's authorisation, and the ledger moving on to 2000.
NextAdmin ==
    \/ \E t \in {2000} : Tick(t)
    \/ HasRoom /\ \E a \in Addr, rc \in ConsensusInputs : Initialize(a, rc, AllAuth)
    \/ HasRoom /\ \E m \in Market : RegisterMarket(m, 2000, AllAuth)
    \/ HasRoom /\ \E c \in Addr, a \in Addr : AddAdminSigner(c, a, AllAuth)
    \/ HasRoom /\ \E c \in Addr, n \in SignatureInputs : SetRequiredSignatures(c, n, AllAuth)
    \/ HasRoom /\ \E c \in Addr, sec \in CooldownInputs : SetOverrideCooldown(c, sec, AllAuth)
    \/ HasRoom /\ \E ap \in ApproverLists, m \in Market, o \in OutcomeInputs :
           EmergencyOverride(ap, m, o, "h1", AllAuth)

SpecAdmin == InitAdmin /\ [][NextAdmin]_vars

\* Scenario 3 of the specification, as cooldown tests of oracle_test.rs set it
\* up: the setup above with mB registered too, then
\* emergency_override([A1, A2], mA, 0, h1) at timestamp 2000.
InitCooldown ==
    /\ admin = Some("A1")
    /\ required_consensus = Some(1)
    /\ oracle_count = Some(1)
    /\ oracles = [o \in Addr |->
           IF o = "A3" THEN Some([registered |-> TRUE, name |-> "Oracle1",
                                  accuracy |-> INITIAL_ACCURACY, timestamp |-> 0])
           ELSE None]
    /\ mkt_res_time = [m \in Market |-> Some(2000)]
    /\ attest_yes = [m \in Market |-> Some(0)]
    /\ attest_no = [m \in Market |-> Some(0)]
    /\ vote = [m \in Market |-> [o \in Addr |-> None]]
    /\ attestation = [m \in Market |-> [o \in Addr |-> None]]
    /\ voters = [m \in Market |-> None]
    /\ admin_signers = Some(<<"A1", "A2">>)
    /\ required_sigs = Some(DEFAULT_REQUIRED_SIGS)
    /\ override_cooldown = Some(DEFAULT_COOLDOWN)
    /\ last_override = Some(2000)
    /\ consensus_result = [m \in Market |-> IF m = "mA" THEN Some(0) ELSE None]
    /\ manual_override = [m \in Market |-> IF m = "mA" THEN Some(TRUE) ELSE None]
    /\ override_record = [m \in Market |->
           IF m = "mA" THEN Some(OverrideRecord(<<"A1", "A2">>, "mA", 0, "h1", 2000))
           ELSE None]
    /\ events = <<>>
    /\ now = 2000
    /\ returned = <<>>

\* The calls, and the ledger moving on to each of the scenario's times.
NextCooldown ==
    \/ \E t \in Times : Tick(t)
    \/ Calls

SpecCooldown == InitCooldown /\ [][NextCooldown]_vars

\* The setup of the attestation and consensus tests of oracle_test.rs:
\* initialize(A1, threshold); register_oracle(A2); register_oracle(A3);
\* register_market(mA, 2000), all at timestamp 0; then the ledger is set to
\* 1500, before the resolution time.  The threshold is 2 as in the tests, or
\* 1.  A1 is no oracle; mB is not registered.
InitAttest ==
    /\ admin = Some("A1")
    /\ required_consensus \in {Some(rc) : rc \in ConsensusInputs}
    /\ oracle_count = Some(2)
    /\ oracles = [o \in Addr |->
           IF o \in {"A2", "A3"}
           THEN Some([registered |-> TRUE, name |-> "Oracle1",
                      accuracy |-> INITIAL_ACCURACY, timestamp |-> 0])
           ELSE None]
    /\ mkt_res_time = [m \in Market |-> IF m = "mA" THEN Some(2000) ELSE None]
    /\ attest_yes = [m \in Market |-> IF m = "mA" THEN Some(0) ELSE None]
    /\ attest_no = [m \in Market |-> IF m = "mA" THEN Some(0) ELSE None]
    /\ vote = [m \in Market |-> [o \in Addr |-> None]]
    /\ attestation = [m \in Market |-> [o \in Addr |-> None]]
    /\ voters = [m \in Market |-> None]
    /\ admin_signers = Some(<<"A1">>)
    /\ required_sigs = Some(DEFAULT_REQUIRED_SIGS)
    /\ override_cooldown = Some(DEFAULT_COOLDOWN)
    /\ last_override = Some(0)
    /\ consensus_result = [m \in Market |-> None]
    /\ manual_override = [m \in Market |-> None]
    /\ override_record = [m \in Market |-> None]
    /\ events = <<>>
    /\ now = 1500
    /\ returned = <<>>

\* The ledger moves on to the resolution time and past it; the administrator
\* initializes again, registers oracles and registers markets, also a second
\* time and with a later resolution time; any identity submits any outcome
\* for any market, with everybody's authorisation or with one identity's
\* missing; anybody checks the consensus.
NextAttest ==
    \/ \E t \in {2000, 3800} : Tick(t)
    \/ HasRoom /\ \E rc \in ConsensusInputs : Initialize("A1", rc, AllAuth)
    \/ HasRoom /\ \E o \in Addr, n \in NameInputs : RegisterOracle(o, n, AllAuth)
    \/ HasRoom /\ \E m \in Market, rt \in ResolutionInputs : RegisterMarket(m, rt, AllAuth)
    \/ HasRoom /\ \E o \in Addr, m \in Market, r \in OutcomeInputs, auth \in Auths :
           SubmitAttestation(o, m, r, auth)
    \/ \E m \in Market : CheckConsensus(m)

SpecAttest == InitAttest /\ [][NextAttest]_vars

\* The registry test test_register_oracle_exceeds_limit, eight or nine rounds
\* into its loop: initialize(A1, 2), then register_oracle for one fresh
\* identity per round, all at timestamp 0.  The identities of Addr have not
\* been registered.
FreshOracles == <<"O1", "O2", "O3", "O4", "O5", "O6", "O7", "O8", "O9">>
OracleIds == Addr \cup {FreshOracles[i] : i \in 1..Len(FreshOracles)}

InitRegistry ==
    /\ admin = Some("A1")
    /\ required_consensus = Some(2)
    /\ \E rounds \in {Len(FreshOracles) - 1, Len(FreshOracles)} :
           /\ oracle_count = Some(rounds)
           /\ oracles = [o \in OracleIds |->
                  IF \E i \in 1..rounds : FreshOracles[i] = o
                  THEN Some([registered |-> TRUE, name |-> "Oracle1",
                             accuracy |-> INITIAL_ACCURACY, timestamp |-> 0])
                  ELSE None]
    /\ mkt_res_time = [m \in Market |-> None]
    /\ attest_yes = [m \in Market |-> None]
    /\ attest_no = [m \in Market |-> None]
    /\ vote = [m \in Market |-> [o \in Addr |-> None]]
    /\ attestation = [m \in Market |-> [o \in Addr |-> None]]
    /\ voters = [m \in Market |-> None]
    /\ admin_signers = Some(<<"A1">>)
    /\ required_sigs = Some(DEFAULT_REQUIRED_SIGS)
    /\ override_cooldown = Some(DEFAULT_COOLDOWN)
    /\ last_override = Some(0)
    /\ consensus_result = [m \in Market |-> None]
    /\ manual_override = [m \in Market |-> None]
    /\ override_record = [m \in Market |-> None]
    /\ events = <<>>
    /\ now = 0
    /\ returned = <<>>

\* The loop goes on, for fresh identities and for registered ones, with the
\* administrator's authorisation or without; any identity initializes again;
\* markets are registered; the ledger moves on.
NextRegistry ==
    \/ \E t \in {2000, 3800} : Tick(t)
    \/ HasRoom /\ \E a \in Addr, rc \in ConsensusInputs, auth \in Auths : Initialize(a, rc, auth)
    \/ HasRoom /\ \E o \in OracleIds, n \in NameInputs, auth \in Auths : RegisterOracle(o, n, auth)
    \/ HasRoom /\ \E m \in Market, rt \in ResolutionInputs : RegisterMarket(m, rt, AllAuth)

SpecRegistry == InitRegistry /\ [][NextRegistry]_vars

\* Every operation from the setup of the override tests, each writing
\* operation but emergency_override on every input and with everybody's
\* authorisation or with one identity's missing; emergency_override with
\* everybody's authorisation; check_consensus on the registered market; the
\* ledger moving on to the end of the default cooldown.
NextAudit ==
    \/ \E t \in {2000 + DEFAULT_COOLDOWN} : Tick(t)
    \/ HasRoom /\ \E a \in Addr, rc \in ConsensusInputs, auth \in Auths : Initialize(a, rc, auth)
    \/ HasRoom /\ \E o \in Addr, n \in NameInputs, auth \in Auths : RegisterOracle(o, n, auth)
    \/ HasRoom /\ \E m \in Market, rt \in ResolutionInputs, auth \in Auths : RegisterMarket(m, rt, auth)
    \/ HasRoom /\ \E o \in Addr, m \in Market, r \in OutcomeInputs, auth \in Auths :
           SubmitAttestation(o, m, r, auth)
    \/ HasRoom /\ \E c \in Addr, a \in Addr, auth \in Auths : AddAdminSigner(c, a, auth)
    \/ HasRoom /\ \E c \in Addr, n \in SignatureInputs, auth \in Auths : SetRequiredSignatures(c, n, auth)
    \/ HasRoom /\ \E c \in Addr, s \in CooldownInputs, auth \in Auths : SetOverrideCooldown(c, s, auth)
    \/ HasRoom /\ \E ap \in ApproverLists, m \in Market, o \in OutcomeInputs :
           EmergencyOverride(ap, m, o, "h1", AllAuth)
    \/ CheckConsensus("mA")

SpecAudit == InitOverride /\ [][NextAudit]_vars

\* ------------------------------------------------------------------- claims
\* Vocabulary of the properties.  A call's authorisations range over every
\* subset of the identities.
AuthSets == SUBSET Addr
Range(s) == {s[i] : i \in 1..Len(s)}
Admins == Range(get_admin_signers)
IsSigner(a) == \E j \in 1..Len(get_admin_signers) : get_admin_signers[j] = a
PairwiseDistinct(ap) == \A i, j \in 1..Len(ap) : ap[i] = ap[j] => i = j
IsOverrideEvent(e) == e.topic = "EmergencyOverride"
OverriddenInLog(m) ==
    \E i \in 1..Len(events) : IsOverrideEvent(events[i]) /\ events[i].data[1] = m

\* This step is a successful emergency_override: it has published its event.
\* CallOf names the call's inputs as the event carries them:
\* <<market_id, forced_outcome, justification_hash, approvers, timestamp>>.
OverrideStep ==
    /\ Len(events') = Len(events) + 1
    /\ IsOverrideEvent(events'[Len(events')])
CallOf == events'[Len(events')].data

\* A call that passes every check of emergency_override but those on
\* repetition in the list and on the cooldown.
OtherwiseValid(ap, m, o, auth) ==
    /\ o <= 1
    /\ Len(ap) >= get_required_signatures
    /\ Range(ap) \subseteq (Admins \cap auth)
    /\ mkt_res_time[m] # None

\* C1: every successful emergency_override has an approver list holding at
\* least required_signatures pairwise-distinct identities that are admin
\* signers; with fewer distinct admin identities the call writes nothing.
C1_DistinctAdminQuorum ==
    [][OverrideStep =>
          Cardinality(Range(CallOf[4]) \cap Admins) >= get_required_signatures]_vars

\* C2: a call whose approver list names an identity twice fails with
\* DuplicateApprover, also when every listed identity is an authenticated
\* admin signer and the list is long enough.
C2_DuplicateApproverRejected ==
    \A ap \in ApproverLists, m \in Market, o \in OutcomeInputs, auth \in AuthSets :
        (/\ ~PairwiseDistinct(ap)
         /\ OtherwiseValid(ap, m, o, auth)
         /\ ~CooldownActive(get_last_override_time, get_override_cooldown, now))
        => emergency_override_err(ap, m, o, auth) = "DuplicateApprover"

\* The ledger time of the most recent successful override, read off the
\* override records (a later override of a market replaces its record, so the
\* latest timestamp over the markets is the latest override).
RecordTimes ==
    {Unwrap(override_record[m]).timestamp :
        m \in {x \in Market : override_record[x] # None}}
Max(S) == CHOOSE x \in S : \A y \in S : y <= x

\* C3: the cooldown is one global clock.  Once an override has succeeded at
\* t1, an otherwise valid call at t2 >= t1, on any market, fails with
\* CooldownActive when t2 - t1 < cooldown and succeeds when t2 - t1 >= cooldown.
C3_GlobalCooldown ==
    \A ap \in ApproverLists, m \in Market, o \in OutcomeInputs, auth \in AuthSets :
        (/\ RecordTimes # {}
         /\ PairwiseDistinct(ap)
         /\ OtherwiseValid(ap, m, o, auth))
        => emergency_override_err(ap, m, o, auth) =
               IF now - Max(RecordTimes) < get_override_cooldown
               THEN "CooldownActive" ELSE "Ok"

\* Scenario 3 as it stands after emergency_override([A1, A2], mA, 0) at 2000:
\* default cooldown, two signatures required, A1 and A2 admin signers, and the
\* last override that of timestamp 2000.
Scenario3 ==
    /\ get_override_cooldown = DEFAULT_COOLDOWN
    /\ get_required_signatures = 2
    /\ {"A1", "A2"} \subseteq Admins
    /\ get_last_override_time = 2000
    /\ mkt_res_time["mB"] # None
Scenario3Call == emergency_override_err(<<"A1", "A2">>, "mB", 1, AllAuth)

\* C4 (as amended): in scenario 3, emergency_override([A1, A2], mB, 1) fails
\* with the cooldown error at now = 3800 and still at now = 88001, when only
\* 86001 of the 86400 seconds have passed; it succeeds at now = 88400.
C4_CooldownScenario ==
    Scenario3 =>
        /\ now = 3800 => Scenario3Call = "CooldownActive"
        /\ now = 88001 => Scenario3Call = "CooldownActive"
        /\ now = 88400 => Scenario3Call = "Ok"

\* C4 as stated: the call fails at now = 3800 and succeeds at now = 88001.
C4_AsStated ==
    Scenario3 =>
        /\ now = 3800 => Scenario3Call = "CooldownActive"
        /\ now = 88001 => Scenario3Call = "Ok"

\* The ledger stands at 88001 in scenario 3 and the call is refused.
C4_Witness ==
    /\ Scenario3
    /\ now = 88001
    /\ Scenario3Call = "CooldownActive"
    /\ get_consensus_result("mA") = Some(0)
    /\ get_consensus_result("mB") = None

\* C5: after every successful emergency_override(approvers, m, o),
\* get_consensus_result(m) returns o, whatever check_consensus(m) reports and
\* whatever an earlier override had stored for m.
C5_OverrideSetsConsensusResult ==
    [][OverrideStep =>
          \A m \in Market : m = CallOf[1] => get_consensus_result(m)' = Some(CallOf[2])]_vars

\* The oracle's vote has market mA at organic consensus YES, and the last call
\* was an override of mA that forced NO.
C5_Witness ==
    /\ Len(events) > 0
    /\ IsOverrideEvent(events[Len(events)])
    /\ events[Len(events)].data[1] = "mA"
    /\ events[Len(events)].data[2] = 0
    /\ check_consensus("mA") = <<TRUE, 1>>
    /\ get_consensus_result("mA") = Some(0)

\* C6: is_manual_override(m) is true in every state after a successful
\* override of m, whatever is called later, and false for a market that no
\* override has targeted.
C6_ManualOverridePermanent ==
    /\ [](\A m \in Market : is_manual_override(m) <=> OverriddenInLog(m))
    /\ [][\A m \in Market : is_manual_override(m) => is_manual_override(m)']_vars

\* mA was overridden and other operations have been called since: mA is still
\* flagged and mB, never overridden, is not.
C6_Witness ==
    /\ Len(events) = MaxEvents
    /\ IsOverrideEvent(events[1])
    /\ events[1].data[1] = "mA"
    /\ ~IsOverrideEvent(events[Len(events)])
    /\ is_manual_override("mA")
    /\ ~is_manual_override("mB")

\* C7: the override record written by a successful emergency_override is read
\* back unchanged through get_override_record in every later state, also after
\* a later successful override of the same market.
C7_RecordImmutable ==
    [][\A m \in Market :
          get_override_record(m) # None
              => get_override_record(m)' = get_override_record(m)]_vars

\* This step is the call emergency_override(CallOf...) made with the
\* authorisations auth.
OverrideStepWith(auth) ==
    EmergencyOverride(CallOf[4], CallOf[1], CallOf[2], CallOf[3], auth)

\* The reasons for which the specification has emergency_override fail.
FailureReason(ap, m, o, auth) ==
    \/ o > 1
    \/ Len(ap) < get_required_signatures
    \/ \E i \in 1..Len(ap) : ~IsSigner(ap[i])
    \/ \E i \in 1..Len(ap) : ap[i] \notin auth
    \/ get_last_override_time > 0 /\ now - get_last_override_time < get_override_cooldown
    \/ mkt_res_time[m] = None

\* C8: a failing emergency_override (invalid outcome, too few, non-admin or
\* unauthenticated approvers, active cooldown, unregistered market) leaves
\* consensus_result, the manual-override flag, the override record,
\* last_override_time and the event log as they were.  A refused call is no
\* step.  So: every step that changes consensus_result, the flag or a record,
\* raises last_override_time or publishes the override event is an
\* emergency_override call, and with whatever authorisations that call was
\* made, none of the reasons held for it.
C8_FailedOverrideWritesNothing ==
    [][(\/ consensus_result' # consensus_result
        \/ manual_override' # manual_override
        \/ override_record' # override_record
        \/ get_last_override_time' > get_last_override_time
        \/ OverrideStep)
       => /\ OverrideStep
          /\ \A auth \in AuthSets :
                 OverrideStepWith(auth)
                     => ~FailureReason(CallOf[4], CallOf[1], CallOf[2], auth)]_vars

\* An override has gone through and the cooldown it started refuses the next
\* call, on the other market, which is valid in everything else.
C8_Witness ==
    /\ Len(events) > 0
    /\ IsOverrideEvent(events[Len(events)])
    /\ events[Len(events)].data[1] = "mA"
    /\ mkt_res_time["mB"] # None
    /\ emergency_override_err(<<"A1", "A2">>, "mB", 1, AllAuth) = "CooldownActive"
    /\ get_consensus_result("mB") = None
    /\ get_override_record("mB") = None

\* C9: emergency_override succeeds only if every identity of the approver
\* list has authenticated; one listed approver without authentication fails
\* the call, also when enough other listed admins have authenticated.
C9_EveryApproverAuthenticates ==
    [][OverrideStep =>
          \A auth \in AuthSets :
              OverrideStepWith(auth)
                  => \A i \in 1..Len(CallOf[4]) : CallOf[4][i] \in auth]_vars

\* One signature is required, A1 has authenticated and A2, listed with it,
\* has not: the call is refused, and goes through once A2 authenticates too.
C9_Witness ==
    /\ get_required_signatures = 1
    /\ {"A1", "A2"} \subseteq Admins
    /\ emergency_override_err(<<"A1", "A2">>, "mA", 1, {"A1"}) = "Unauthorized"
    /\ emergency_override_err(<<"A1", "A2">>, "mA", 1, {"A1", "A2"}) = "Ok"

\* The preconditions of emergency_override: the outcome is 0 or 1, the
\* approvers are pairwise-distinct authenticated admin signers and at least
\* required_signatures of them, no override has succeeded yet or the cooldown
\* has passed since the last one, and the market is registered.
ApproversAccepted(ap, auth) ==
    /\ Len(ap) >= get_required_signatures
    /\ PairwiseDistinct(ap)
    /\ \A i \in 1..Len(ap) : ap[i] \in auth /\ IsSigner(ap[i])
Preconditions(ap, m, o, auth) ==
    /\ o \in {0, 1}
    /\ ApproversAccepted(ap, auth)
    /\ RecordTimes = {} \/ now - Max(RecordTimes) >= get_override_cooldown
    /\ mkt_res_time[m] # None

\* C10: emergency_override succeeds whenever its preconditions hold, and a
\* successful call stores forced_outcome as the consensus result, sets the
\* manual-override flag, writes the record (outcome, justification hash,
\* approver list, timestamp = now) and sets last_override_time to now.
C10_OverrideSucceedsAndStores ==
    /\ [](\A ap \in ApproverLists, auth \in AuthSets :
             ApproversAccepted(ap, auth) =>
                 \A m \in Market, o \in OutcomeInputs :
                     Preconditions(ap, m, o, auth)
                         => emergency_override_err(ap, m, o, auth) = "Ok")
    /\ [][OverrideStep =>
             \A m \in Market : m = CallOf[1] =>
                 /\ get_consensus_result(m)' = Some(CallOf[2])
                 /\ is_manual_override(m)'
                 /\ get_override_record(m)' =
                        Some([market_id |-> m, forced_outcome |-> CallOf[2],
                              justification_hash |-> CallOf[3],
                              approvers |-> CallOf[4], timestamp |-> now])
                 /\ get_last_override_time' = now]_vars

\* The happy path: A1 and A2 have overridden mA at the ledger's present time,
\* after an earlier override; result, flag, record and clock are those of
\* this call.
C10_Witness ==
    /\ Len(events) = 2
    /\ IsOverrideEvent(events[1])
    /\ events[2] = Event("EmergencyOverride", <<"mA", 1, "h2", <<"A1", "A2">>, now>>)
    /\ get_consensus_result("mA") = Some(1)
    /\ is_manual_override("mA")
    /\ get_override_record("mA") = Some(OverrideRecord(<<"A1", "A2">>, "mA", 1, "h2", now))
    /\ get_last_override_time = now

\* ------------------------------------------- claims on submit_attestation
\* This step is a successful submit_attestation: it has published its event,
\* which carries the call's inputs <<market_id, oracle, attestation_result>>.
IsAttestEvent(e) == e.topic = "AttestationSubmitted"
AttestStep ==
    /\ Len(events') = Len(events) + 1
    /\ IsAttestEvent(events'[Len(events')])
AttestedInLog(m, o) ==
    Cardinality({i \in 1..Len(events) :
        IsAttestEvent(events[i]) /\ events[i].data[1] = m /\ events[i].data[2] = o})
TimesListed(m, o) ==
    Cardinality({i \in 1..Len(UnwrapOr(voters[m], <<>>)) : Unwrap(voters[m])[i] = o})

\* C11 as stated: once a vote exists for (market, oracle), a further
\* submit_attestation for the pair, with either outcome and the oracle
\* authenticated, fails with DuplicateVote.
C11_AsStated ==
    \A m \in Market, o \in Addr, r \in {0, 1} :
        IsSome(vote[m][o]) => submit_attestation_err(o, m, r, AllAuth) = "DuplicateVote"

\* C11 (as amended): for every (market, oracle) pair at most one
\* submit_attestation ever succeeds.  Once a vote exists for the pair, any
\* further submit_attestation for it, with either outcome, fails: with
\* DuplicateVote when the oracle has authenticated and the ledger time has
\* reached the resolution time now on file for the market, with TooEarly when
\* the market has been registered again with a resolution time still ahead,
\* with Unauthorized when the oracle has not authenticated.  The stored vote
\* and attestation of the pair never change and the oracle stays listed once.
C11_AtMostOneAttestation ==
    /\ [](\A m \in Market, o \in Addr :
             /\ AttestedInLog(m, o) <= 1
             /\ TimesListed(m, o) = (IF IsSome(vote[m][o]) THEN 1 ELSE 0)
             /\ IsSome(vote[m][o]) =>
                    \A r \in {0, 1}, auth \in AuthSets :
                        submit_attestation_err(o, m, r, auth) =
                            IF o \notin auth THEN "Unauthorized"
                            ELSE IF now < Unwrap(mkt_res_time[m]) THEN "TooEarly"
                            ELSE "DuplicateVote")
    /\ [][\A m \in Market, o \in Addr :
             IsSome(vote[m][o]) =>
                 /\ vote'[m][o] = vote[m][o]
                 /\ attestation'[m][o] = attestation[m][o]
                 /\ TimesListed(m, o)' = TimesListed(m, o)]_vars

\* A2 has voted YES on mA, and a second submission, with YES or with NO, is
\* refused as a duplicate.
C11_Witness ==
    /\ vote["mA"]["A2"] = Some(1)
    /\ AttestedInLog("mA", "A2") = 1
    /\ submit_attestation_err("A2", "mA", 1, AllAuth) = "DuplicateVote"
    /\ submit_attestation_err("A2", "mA", 0, AllAuth) = "DuplicateVote"

AttestStepWith(auth) ==
    SubmitAttestation(CallOf[2], CallOf[1], CallOf[3], auth)

\* The reasons for which the specification has submit_attestation fail.
AttestFailureReason(o, m, r, auth) ==
    \/ o \notin auth
    \/ oracles[o] = None
    \/ mkt_res_time[m] = None
    \/ IsSome(mkt_res_time[m]) /\ now < Unwrap(mkt_res_time[m])
    \/ r \notin {0, 1}
    \/ IsSome(vote[m][o])

YesCount(m) == UnwrapOr(attest_yes[m], 0)
NoCount(m) == UnwrapOr(attest_no[m], 0)

\* C13: a failing submit_attestation (unauthenticated caller, unregistered
\* oracle, unregistered market, too early, outcome not 0 or 1, duplicate
\* vote) leaves votes, attestation records, voter lists, tally counters and
\* the event log as they were.  A refused call is no step.  So: every step
\* that changes a vote, an attestation record or a voter list, raises a tally
\* counter or publishes the attestation event is a submit_attestation call,
\* and with whatever authorisations that call was made, none of the reasons
\* held for it.
C13_FailedAttestationWritesNothing ==
    [][(\/ vote' # vote
        \/ attestation' # attestation
        \/ voters' # voters
        \/ \E m \in Market : YesCount(m)' > YesCount(m) \/ NoCount(m)' > NoCount(m)
        \/ AttestStep)
       => /\ AttestStep
          /\ \A auth \in AuthSets :
                 AttestStepWith(auth)
                     => ~AttestFailureReason(CallOf[2], CallOf[1], CallOf[3], auth)]_vars

\* A2 has just voted on mA at 2000.  Calls that are refused in this state:
\* A2 again (duplicate), A1 (no oracle), A3 on mB (market not registered), A3
\* with outcome 2, A3 without its authentication.
C13_Witness ==
    /\ now = 2000
    /\ Len(events) > 0
    /\ IsAttestEvent(events[Len(events)])
    /\ events[Len(events)].data = <<"mA", "A2", 0>>
    /\ submit_attestation_err("A2", "mA", 1, AllAuth) = "DuplicateVote"
    /\ submit_attestation_err("A1", "mA", 1, AllAuth) = "NotRegistered"
    /\ submit_attestation_err("A3", "mB", 1, AllAuth) = "MarketNotRegistered"
    /\ submit_attestation_err("A3", "mA", 2, AllAuth) = "InvalidOutcome"
    /\ submit_attestation_err("A3", "mA", 1, Addr \ {"A3"}) = "Unauthorized"
    /\ voters["mA"] = Some(<<"A2">>)
    /\ get_attestation_counts("mA") = <<0, 1>>

\* C14: a successful submit_attestation(oracle, m, outcome) stores the vote
\* and the attestation record {attestor = oracle, outcome, timestamp = now},
\* appends the oracle at the end of m's voter list, raises the counter of the
\* outcome (yes for 1, no for 0) by exactly one and leaves the other counter
\* as it was.
C14_AttestationStored ==
    [][AttestStep =>
          \A m \in Market, o \in Addr :
              (m = CallOf[1] /\ o = CallOf[2]) =>
                  /\ vote'[m][o] = Some(CallOf[3])
                  /\ get_attestation(m, o)' =
                         Some([attestor |-> o, outcome |-> CallOf[3], timestamp |-> now])
                  /\ UnwrapOr(voters[m], <<>>)' = Append(UnwrapOr(voters[m], <<>>), o)
                  /\ IF CallOf[3] = 1
                     THEN /\ YesCount(m)' = YesCount(m) + 1
                          /\ attest_no'[m] = attest_no[m]
                     ELSE /\ NoCount(m)' = NoCount(m) + 1
                          /\ attest_yes'[m] = attest_yes[m]]_vars

\* A2 has voted NO on mA and A3 has just voted YES at 2000: A3 is the last
\* of the two voters, its record carries the timestamp, and each counter
\* stands at one.
C14_Witness ==
    /\ Len(events) > 0
    /\ events[Len(events)] = Event("AttestationSubmitted", <<"mA", "A3", 1>>)
    /\ vote["mA"] = [o \in Addr |-> IF o = "A2" THEN Some(0)
                                    ELSE IF o = "A3" THEN Some(1) ELSE None]
    /\ get_attestation("mA", "A3") =
           Some([attestor |-> "A3", outcome |-> 1, timestamp |-> 2000])
    /\ voters["mA"] = Some(<<"A2", "A3">>)
    /\ get_attestation_counts("mA") = <<1, 1>>

\* ---------------------------------------------- claims on check_consensus
\* The counts of a market re-derived from its voter list and the stored
\* votes, and the reference function of the specification over them.
VoterList(m) == UnwrapOr(voters[m], <<>>)
YesVotes(m) == Cardinality({i \in 1..Len(VoterList(m)) : vote[m][VoterList(m)[i]] = Some(1)})
NoVotes(m) == Cardinality({i \in 1..Len(VoterList(m)) : vote[m][VoterList(m)[i]] = Some(0)})
Threshold == UnwrapOr(required_consensus, 0)
Reference(n, yes, no, T) ==
    IF n < T THEN <<FALSE, 0>>
    ELSE IF yes >= T /\ yes > no THEN <<TRUE, 1>>
    ELSE IF no >= T /\ no > yes THEN <<TRUE, 0>>
    ELSE <<FALSE, 0>>

\* C15: in every reachable state and for every market m, check_consensus(m),
\* and every value the call has returned since the last write, equals the
\* reference function over the voter count and the yes/no counts re-derived
\* from m's voter list and stored votes, with T the stored threshold.  When
\* consensus is reported the winning side alone has at least T votes, and the
\* outcome is 0 whenever it is not reported.
C15_ConsensusReference ==
    /\ \A m \in Market :
           LET res == check_consensus(m) IN
           /\ res = Reference(Len(VoterList(m)), YesVotes(m), NoVotes(m), Threshold)
           /\ res[1] => (IF res[2] = 1 THEN YesVotes(m) ELSE NoVotes(m)) >= Threshold
           /\ ~res[1] => res[2] = 0
    /\ \A i \in 1..Len(returned) :
           returned[i].result =
               Reference(Len(VoterList(returned[i].market_id)),
                         YesVotes(returned[i].market_id),
                         NoVotes(returned[i].market_id), Threshold)

\* The threshold is 2, A2 and A3 have both voted YES on mA, and
\* check_consensus(mA) has returned (true, 1).
C15_Witness ==
    /\ Threshold = 2
    /\ voters["mA"] = Some(<<"A2", "A3">>)
    /\ YesVotes("mA") = 2
    /\ Len(returned) > 0
    /\ returned[Len(returned)] = [market_id |-> "mA", result |-> <<TRUE, 1>>]

\* C16: tie law.  In every reachable state where the yes votes of a market
\* equal its no votes and both are at or above the threshold,
\* check_consensus reports (false, 0), and so has every call since the last
\* write.
C16_TieLaw ==
    \A m \in Market :
        (YesVotes(m) = NoVotes(m) /\ YesVotes(m) >= Threshold) =>
            /\ check_consensus(m) = <<FALSE, 0>>
            /\ \A i \in 1..Len(returned) :
                   returned[i].market_id = m => returned[i].result = <<FALSE, 0>>

\* The threshold is 1, A2 has voted YES and A3 NO on mA: one vote each, both
\* at the threshold, and check_consensus(mA) has returned (false, 0).
C16_Witness ==
    /\ Threshold = 1
    /\ YesVotes("mA") = 1
    /\ NoVotes("mA") = 1
    /\ Len(returned) > 0
    /\ returned[Len(returned)] = [market_id |-> "mA", result |-> <<FALSE, 0>>]

\* This step is a check_consensus call: it has returned a value.
CheckStep == Len(returned') = Len(returned) + 1

\* C17: check_consensus is read-only and idempotent.  A call changes nothing
\* that is stored and appends no event, and the calls made for one market
\* with no write in between have all returned the same (reached, outcome)
\* pair.
C17_CheckConsensusReadOnly ==
    /\ [](\A i, j \in 1..Len(returned) :
             returned[i].market_id = returned[j].market_id
                 => returned[i].result = returned[j].result)
    /\ [][CheckStep => UNCHANGED <<storage, events>>]_vars

\* check_consensus(mA) has been called MaxReturns times in a row on a market
\* at consensus, and has returned (true, 1) each time.
C17_Witness ==
    /\ Len(returned) = MaxReturns
    /\ \A i \in 1..Len(returned) :
           returned[i] = [market_id |-> "mA", result |-> <<TRUE, 1>>]
    /\ IsSome(voters["mA"])

\* C18: the persisted consensus result is written by emergency_override
\* only.  A market that has never been successfully overridden has no
\* consensus result (get_consensus_result fails as not found) after any
\* sequence of operations, also while check_consensus reports consensus for
\* it; and a step that changes the result of a market is an override of that
\* market.
C18_ResultWrittenByOverrideOnly ==
    /\ [](\A m \in Market : ~OverriddenInLog(m) => get_consensus_result(m) = None)
    /\ [][\A m \in Market :
             get_consensus_result(m)' # get_consensus_result(m)
                 => OverrideStep /\ CallOf[1] = m]_vars

\* Two calls have completed, the oracle's vote among them; check_consensus
\* reports (true, 1) for mA, mA has not been overridden and has no consensus
\* result.
C18_Witness ==
    /\ Len(events) = 2
    /\ check_consensus("mA") = <<TRUE, 1>>
    /\ ~OverriddenInLog("mA")
    /\ get_consensus_result("mA") = None

\* ---------------------------------------------- claims on register_oracle
\* The identities that have an oracle entry, and the stored counter.
RegisteredOracles == {o \in DOMAIN oracles : IsSome(oracles[o])}
OracleCount == UnwrapOr(oracle_count, 0)

\* C19: in every reachable state at most 10 oracle identities are registered
\* and the stored oracle count is at most 10; once 10 are registered, every
\* further register_oracle call, made with the administrator's
\* authorisation, fails with RegistryFull.
C19_RegistryLimit ==
    /\ Cardinality(RegisteredOracles) <= MAX_ORACLES
    /\ OracleCount <= MAX_ORACLES
    /\ Cardinality(RegisteredOracles) >= MAX_ORACLES =>
           \A o \in DOMAIN oracles : register_oracle_err(o, AllAuth) = "RegistryFull"

\* This step is a successful register_oracle: it has published its event,
\* which carries <<oracle, oracle_name, timestamp>>.
IsRegisterEvent(e) == e.topic = "oracle_registered"
RegisterStep ==
    /\ Len(events') = Len(events) + 1
    /\ IsRegisterEvent(events'[Len(events')])
RegisteredInLog(o) ==
    Cardinality({i \in 1..Len(events) : IsRegisterEvent(events[i]) /\ events[i].data[1] = o})

\* C20 as stated: register_oracle for an identity that is already registered,
\* called with the administrator's authorisation, fails with
\* AlreadyRegistered.
C20_AsStated ==
    \A o \in DOMAIN oracles :
        IsSome(oracles[o]) => register_oracle_err(o, AllAuth) = "AlreadyRegistered"

\* C20 (as amended): register_oracle for an identity that is already
\* registered fails: with AlreadyRegistered while the stored count is below
\* 10, with RegistryFull once the count has reached 10, with Unauthorized
\* without the administrator's authentication.  The stored oracle data of a
\* registered identity never changes, a registration adds exactly one to the
\* count and only for an identity that had no entry, and no identity is
\* counted twice: none is registered twice, and the count never exceeds the
\* number of registered identities.
C20_DuplicateRegistration ==
    /\ [](/\ \A o \in DOMAIN oracles :
                /\ RegisteredInLog(o) <= 1
                /\ IsSome(oracles[o]) =>
                       \A auth \in AuthSets :
                           register_oracle_err(o, auth) =
                               IF admin = None THEN "NotInitialized"
                               ELSE IF Unwrap(admin) \notin auth THEN "Unauthorized"
                               ELSE IF OracleCount >= MAX_ORACLES THEN "RegistryFull"
                               ELSE "AlreadyRegistered"
          /\ OracleCount <= Cardinality(RegisteredOracles))
    /\ [][/\ \A o \in DOMAIN oracles : IsSome(oracles[o]) => oracles'[o] = oracles[o]
          /\ RegisterStep =>
                 /\ \A o \in DOMAIN oracles : o = CallOf[1] => oracles[o] = None
                 /\ OracleCount' = OracleCount + 1]_vars

\* A1 has just been registered as the ninth oracle.  A second register_oracle
\* for it is refused as already registered, as is one for O1, registered
\* from the start.
C20_Witness ==
    /\ Len(events) > 0
    /\ IsRegisterEvent(events[Len(events)])
    /\ events[Len(events)].data[1] = "A1"
    /\ OracleCount = 9
    /\ Cardinality(RegisteredOracles) = 9
    /\ register_oracle_err("A1", AllAuth) = "AlreadyRegistered"
    /\ register_oracle_err("O1", AllAuth) = "AlreadyRegistered"

\* ------------------------------------ claims on the admin configuration
\* This step is a successful call of the operation that publishes topic.
StepOf(topic) ==
    /\ Len(events') = Len(events) + 1
    /\ events'[Len(events')].topic = topic
LastEvent == events[Len(events)]

\* C21: immediately after initialize(admin, required_consensus) the admin
\* signers are exactly the one admin, required signatures is 2, the override
\* cooldown is 86400, last override time is 0, the oracle count is 0 and the
\* consensus threshold is required_consensus.
C21_InitializeDefaults ==
    [][StepOf("oracle_initialized") =>
          /\ admin' = Some(CallOf[1])
          /\ get_admin_signers' = <<CallOf[1]>>
          /\ get_required_signatures' = 2
          /\ get_override_cooldown' = 86400
          /\ get_last_override_time' = 0
          /\ oracle_count' = Some(0)
          /\ required_consensus' = Some(CallOf[2])]_vars

\* The cooldown had been set to 3600 with A1 and A2 the signers and threshold
\* 1; then A3 has called initialize(A3, 2).
C21_Witness ==
    /\ Len(events) = 2
    /\ events[1] = Event("override_cooldown_updated", <<3600>>)
    /\ LastEvent = Event("oracle_initialized", <<"A3", 2>>)
    /\ get_admin_signers = <<"A3">>
    /\ get_override_cooldown = 86400
    /\ required_consensus = Some(2)

\* C22: add_admin_signer(caller, new_admin), called by an authenticated
\* caller, fails with NotAdmin when the caller is no admin signer and with
\* AlreadyAdmin when the caller is one and new_admin is one already; otherwise
\* it succeeds, for any current signer as caller, and appends new_admin.  The
\* signer list changes in no other way but by initialize, and never holds an
\* identity twice.
C22_AddAdminSigner ==
    /\ [](/\ PairwiseDistinct(get_admin_signers)
          /\ \A c \in Addr, a \in Addr, auth \in AuthSets :
                 LET err == add_admin_signer_err(c, a, auth) IN
                 /\ c \notin auth => err # "Ok"
                 /\ (c \in auth /\ admin_signers # None) =>
                        err = IF ~IsSigner(c) THEN "NotAdmin"
                              ELSE IF IsSigner(a) THEN "AlreadyAdmin"
                              ELSE "Ok")
    /\ [][/\ StepOf("admin_signer_added") =>
                 get_admin_signers' = Append(get_admin_signers, CallOf[1])
          /\ admin_signers' # admin_signers =>
                 StepOf("admin_signer_added") \/ StepOf("oracle_initialized")]_vars

\* A3 has just been added to the signers A1 and A2.  It may call now, and its
\* call to add A1 is refused because A1 is a signer; with A2 alone
\* authenticated the same call is refused too.
C22_Witness ==
    /\ Len(events) > 0
    /\ LastEvent = Event("admin_signer_added", <<"A3">>)
    /\ get_admin_signers = <<"A1", "A2", "A3">>
    /\ add_admin_signer_err("A3", "A1", {"A3"}) = "AlreadyAdmin"
    /\ add_admin_signer_err("A3", "A1", {"A2"}) = "Unauthorized"

\* C23: set_required_signatures(caller, n), called by an authenticated
\* caller, fails when the caller is no admin signer, and fails with
\* InvalidValue when the caller is one and n = 0 or n is greater than the
\* number of admin signers; otherwise it succeeds and the required-signature
\* count becomes n.  The count changes in no other way but by initialize.
C23_SetRequiredSignatures ==
    /\ [](\A c \in Addr, n \in SignatureInputs, auth \in AuthSets :
             LET err == set_required_signatures_err(c, n, auth) IN
             /\ c \notin auth => err # "Ok"
             /\ (c \in auth /\ admin_signers # None) =>
                    err = IF ~IsSigner(c) THEN "NotAdmin"
                          ELSE IF n = 0 \/ n > Len(get_admin_signers) THEN "InvalidValue"
                          ELSE "Ok")
    /\ [][/\ StepOf("required_signatures_updated") =>
                 get_required_signatures' = CallOf[1]
          /\ required_sigs' # required_sigs =>
                 StepOf("required_signatures_updated") \/ StepOf("oracle_initialized")]_vars

\* With A1 and A2 the signers the count has just been set to 1.  Setting it
\* to 0 or to 3 is refused as invalid, setting it to 2 is accepted, and A3,
\* no signer, is refused.
C23_Witness ==
    /\ Len(events) > 0
    /\ LastEvent = Event("required_signatures_updated", <<1>>)
    /\ get_admin_signers = <<"A1", "A2">>
    /\ get_required_signatures = 1
    /\ set_required_signatures_err("A2", 0, AllAuth) = "InvalidValue"
    /\ set_required_signatures_err("A2", 3, AllAuth) = "InvalidValue"
    /\ set_required_signatures_err("A2", 2, AllAuth) = "Ok"
    /\ set_required_signatures_err("A3", 2, AllAuth) = "NotAdmin"

\* C24: set_override_cooldown(caller, seconds), called by an authenticated
\* caller, fails when the caller is no admin signer, and fails with TooShort
\* when the caller is one and seconds < 3600; otherwise it succeeds and the
\* cooldown becomes seconds.  The cooldown changes in no other way but by
\* initialize, and it is at least 3600 in every reachable state.
C24_SetOverrideCooldown ==
    /\ [](/\ get_override_cooldown >= 3600
          /\ \A c \in Addr, sec \in CooldownInputs, auth \in AuthSets :
                 LET err == set_override_cooldown_err(c, sec, auth) IN
                 /\ c \notin auth => err # "Ok"
                 /\ (c \in auth /\ admin_signers # None) =>
                        err = IF ~IsSigner(c) THEN "NotAdmin"
                              ELSE IF sec < 3600 THEN "TooShort"
                              ELSE "Ok")
    /\ [][/\ StepOf("override_cooldown_updated") =>
                 get_override_cooldown' = CallOf[1]
          /\ override_cooldown' # override_cooldown =>
                 StepOf("override_cooldown_updated") \/ StepOf("oracle_initialized")]_vars

\* A signer has just set the cooldown to 3600, the least value accepted:
\* 3599 and 1800 are refused as too short, and A3, no signer, is refused.
C24_Witness ==
    /\ Len(events) > 0
    /\ LastEvent = Event("override_cooldown_updated", <<3600>>)
    /\ get_override_cooldown = 3600
    /\ get_admin_signers = <<"A1", "A2">>
    /\ set_override_cooldown_err("A1", 3599, AllAuth) = "TooShort"
    /\ set_override_cooldown_err("A2", 1800, AllAuth) = "TooShort"
    /\ set_override_cooldown_err("A3", 3600, AllAuth) = "NotAdmin"

\* -------------------------------------- claims on markets and attestations
\* What register_market(m, CallOf[2]) does to the market m it names, but for
\* the way later submissions of its voters are refused.
ReRegistrationFrame(m) ==
    /\ get_market_resolution_time(m)' = Some(CallOf[2])
    /\ get_attestation_counts(m)' = <<0, 0>>
    /\ vote'[m] = vote[m]
    /\ attestation'[m] = attestation[m]
    /\ voters'[m] = voters[m]
    /\ check_consensus(m)' = check_consensus(m)

\* C25 as stated: register_market on a market rewrites its resolution time,
\* resets both tally counters to zero and leaves votes, attestation records
\* and voter list untouched; check_consensus is unchanged, and every oracle
\* that had voted is refused with DuplicateVote afterwards.
C25_AsStated ==
    [][StepOf("market_registered") =>
          \A m \in Market : m = CallOf[1] =>
              /\ ReRegistrationFrame(m)
              /\ \A o \in Addr, r \in {0, 1} :
                     IsSome(vote[m][o]) =>
                         submit_attestation_err(o, m, r, AllAuth)' = "DuplicateVote"]_vars

\* C25 (as amended): as above, and every oracle that had voted is still
\* refused afterwards: with DuplicateVote when the ledger time has reached the
\* new resolution time, with TooEarly when the new resolution time is still
\* ahead.
C25_ReRegistration ==
    [][StepOf("market_registered") =>
          \A m \in Market : m = CallOf[1] =>
              /\ ReRegistrationFrame(m)
              /\ \A o \in Addr, r \in {0, 1} :
                     IsSome(vote[m][o]) =>
                         submit_attestation_err(o, m, r, AllAuth)' =
                             IF now < CallOf[2] THEN "TooEarly" ELSE "DuplicateVote"]_vars

\* The threshold is 1 and A2 had voted YES on mA; then mA has been registered
\* again.  Both counters read zero, the vote and the voter list are there,
\* check_consensus still reports (true, 1) and A2 is refused as a duplicate.
C25_Witness ==
    /\ Len(events) = 2
    /\ events[1] = Event("AttestationSubmitted", <<"mA", "A2", 1>>)
    /\ LastEvent = Event("market_registered", <<"mA", 2000>>)
    /\ get_attestation_counts("mA") = <<0, 0>>
    /\ vote["mA"]["A2"] = Some(1)
    /\ voters["mA"] = Some(<<"A2">>)
    /\ check_consensus("mA") = <<TRUE, 1>>
    /\ submit_attestation_err("A2", "mA", 0, AllAuth) = "DuplicateVote"

\* C26: attestations are immutable.  Once get_attestation(m, o) returns a
\* record it returns the identical record (attestor, outcome, timestamp) in
\* every later state, whatever is called, re-registration of m and emergency
\* overrides included.
C26_AttestationImmutable ==
    [][\A m \in Market, o \in Addr :
          get_attestation(m, o) # None
              => get_attestation(m, o)' = get_attestation(m, o)]_vars

\* A3 has attested YES on mA at 2000 and mA has then been overridden: the
\* record reads as it was written.
C26_Witness ==
    /\ Len(events) = 2
    /\ events[1] = Event("AttestationSubmitted", <<"mA", "A3", 1>>)
    /\ IsOverrideEvent(LastEvent)
    /\ LastEvent.data[1] = "mA"
    /\ get_attestation("mA", "A3") =
           Some([attestor |-> "A3", outcome |-> 1, timestamp |-> 2000])

\* C27: in every reachable state every stored vote and attestation belongs
\* to a registered oracle and a registered market and has outcome 0 or 1; no
\* submit_attestation is accepted for an unknown oracle, an unknown market or
\* another outcome.
C27_AttestationsWellFormed ==
    /\ [](\A m \in Market, o \in Addr :
             (IsSome(vote[m][o]) \/ IsSome(attestation[m][o])) =>
                 /\ IsSome(oracles[o])
                 /\ IsSome(mkt_res_time[m])
                 /\ vote[m][o] \in {Some(0), Some(1)}
                 /\ IsSome(attestation[m][o])
                 /\ Unwrap(attestation[m][o]).attestor = o
                 /\ Unwrap(attestation[m][o]).outcome \in {0, 1})
    /\ [][AttestStep =>
             /\ IsSome(oracles[CallOf[2]])
             /\ IsSome(mkt_res_time[CallOf[1]])
             /\ CallOf[3] \in {0, 1}]_vars

\* mB has been registered and A3 has voted NO on it.  A1 is no oracle and is
\* refused, and outcome 2 is refused.
C27_Witness ==
    /\ Len(events) = 2
    /\ events[1] = Event("market_registered", <<"mB", 2000>>)
    /\ LastEvent = Event("AttestationSubmitted", <<"mB", "A3", 0>>)
    /\ oracles["A1"] = None
    /\ submit_attestation_err("A1", "mB", 0, AllAuth) = "NotRegistered"
    /\ submit_attestation_err("A2", "mB", 2, AllAuth) = "InvalidOutcome"

\* The administrator of the initialize call that InitOverride starts from.
FirstAdministrator == "A1"

\* This step is the call made with the authorisations auth.
RegisterStepWith(auth) == RegisterOracle(CallOf[1], CallOf[2], auth)
RegisterMarketStepWith(auth) == RegisterMarket(CallOf[1], CallOf[2], auth)

\* C28: submit_attestation succeeds only with the authorisation of the
\* attesting oracle itself, and register_oracle and register_market succeed
\* only with the authorisation of the administrator fixed at initialization;
\* the authorisation of the administrator or of a later admin signer is not
\* enough in the place of the one required.
C28_AuthorizationGate ==
    /\ [][AttestStep =>
             \A auth \in AuthSets : AttestStepWith(auth) => CallOf[2] \in auth]_vars
    /\ [][StepOf("oracle_registered") =>
             \A auth \in AuthSets :
                 RegisterStepWith(auth) => FirstAdministrator \in auth]_vars
    /\ [][StepOf("market_registered") =>
             \A auth \in AuthSets :
                 RegisterMarketStepWith(auth) => FirstAdministrator \in auth]_vars

\* The step appends exactly one event, of the given kind, and leaves every
\* earlier event where and as it was.
AppendsOne(topic) ==
    /\ StepOf(topic)
    /\ SubSeq(events', 1, Len(events)) = events

\* C29: the event log is append-only and complete.  No event is ever removed
\* or altered; every step that changes what is stored appends exactly one
\* event, and an event of a kind is appended only by a successful call of the
\* operation of that kind, with the inputs the event carries; a read and the
\* passing of time append nothing (a failed call is no step).
C29_EventLog ==
    /\ [][\/ events' = events
          \/ /\ Len(events') = Len(events) + 1
             /\ SubSeq(events', 1, Len(events)) = events]_vars
    /\ [][storage' # storage =>
             \E topic \in {"oracle_initialized", "oracle_registered", "market_registered",
                           "AttestationSubmitted", "admin_signer_added",
                           "required_signatures_updated", "override_cooldown_updated",
                           "EmergencyOverride"} : AppendsOne(topic)]_vars
    /\ [][(CheckStep \/ now' # now) => events' = events]_vars
    /\ [][/\ StepOf("oracle_initialized") => Initialize(CallOf[1], CallOf[2], AllAuth)
          /\ StepOf("oracle_registered") => RegisterOracle(CallOf[1], CallOf[2], AllAuth)
          /\ StepOf("market_registered") => RegisterMarket(CallOf[1], CallOf[2], AllAuth)
          /\ StepOf("AttestationSubmitted") =>
                 SubmitAttestation(CallOf[2], CallOf[1], CallOf[3], AllAuth)
          /\ StepOf("admin_signer_added") =>
                 \E c \in Addr : AddAdminSigner(c, CallOf[1], AllAuth)
          /\ StepOf("required_signatures_updated") =>
                 \E c \in Addr : SetRequiredSignatures(c, CallOf[1], AllAuth)
          /\ StepOf("override_cooldown_updated") =>
                 \E c \in Addr : SetOverrideCooldown(c, CallOf[1], AllAuth)
          /\ StepOf("EmergencyOverride") =>
                 EmergencyOverride(CallOf[4], CallOf[1], CallOf[2], CallOf[3], AllAuth)
         ]_vars

\* The cooldown has been set to 3600 after a vote: the log holds the vote's
\* event unchanged in the first place and the setter's event after it.
C29_Witness ==
    /\ Len(events) = 2
    /\ events[1] = Event("AttestationSubmitted", <<"mA", "A3", 1>>)
    /\ LastEvent = Event("override_cooldown_updated", <<3600>>)
    /\ override_cooldown = Some(3600)

\* The event appended by this step carries n call parameters and after them
\* the ledger timestamp of the call.
CarriesTimestamp(n) ==
    /\ Len(CallOf) = n + 1
    /\ CallOf[n + 1] = now

\* C30: every audit event carries the full set of the call's parameters and
\* the timestamp of the call: the appended event holds the inputs of the
\* successful call that made the step, followed by the ledger time.
C30_AuditEventPayload ==
    [][/\ StepOf("oracle_initialized") =>
              CarriesTimestamp(2) /\ Initialize(CallOf[1], CallOf[2], AllAuth)
       /\ StepOf("oracle_registered") =>
              CarriesTimestamp(2) /\ RegisterOracle(CallOf[1], CallOf[2], AllAuth)
       /\ StepOf("market_registered") =>
              CarriesTimestamp(2) /\ RegisterMarket(CallOf[1], CallOf[2], AllAuth)
       /\ StepOf("AttestationSubmitted") =>
              CarriesTimestamp(3) /\ SubmitAttestation(CallOf[2], CallOf[1], CallOf[3], AllAuth)
       /\ StepOf("admin_signer_added") =>
              CarriesTimestamp(1) /\ \E c \in Addr : AddAdminSigner(c, CallOf[1], AllAuth)
       /\ StepOf("required_signatures_updated") =>
              CarriesTimestamp(1) /\ \E c \in Addr : SetRequiredSignatures(c, CallOf[1], AllAuth)
       /\ StepOf("override_cooldown_updated") =>
              CarriesTimestamp(1) /\ \E c \in Addr : SetOverrideCooldown(c, CallOf[1], AllAuth)
       /\ StepOf("EmergencyOverride") =>
              /\ CarriesTimestamp(4)
              /\ EmergencyOverride(CallOf[4], CallOf[1], CallOf[2], CallOf[3], AllAuth)
      ]_vars

\* The preconditions of emergency_override, each stated on its own.
BadOutcome(o) == o \notin {0, 1}
TooFewApprovers(ap) == Len(ap) < get_required_signatures
BadApprover(ap, auth) == \E i \in 1..Len(ap) : ap[i] \notin auth \/ ~IsSigner(ap[i])
InCooldown ==
    /\ get_last_override_time > 0
    /\ now - get_last_override_time < get_override_cooldown
UnknownMarket(m) == mkt_res_time[m] = None

\* C31: when an emergency_override call violates several preconditions, the
\* error is that of the first failing one in the order InvalidOutcome,
\* InsufficientApprovers, InvalidApprover (or missing authentication),
\* CooldownActive, MarketNotRegistered; the call succeeds when none fails.
C31_OverrideErrorOrder ==
    \A ap \in ApproverLists, m \in Market, o \in OutcomeInputs, auth \in Auths :
        LET err == emergency_override_err(ap, m, o, auth) IN
        IF BadOutcome(o) THEN err = "InvalidOutcome"
        ELSE IF TooFewApprovers(ap) THEN err = "InsufficientApprovers"
        ELSE IF BadApprover(ap, auth) THEN err \in {"InvalidApprover", "Unauthorized"}
        ELSE IF InCooldown THEN err = "CooldownActive"
        ELSE IF UnknownMarket(m) THEN err = "MarketNotRegistered"
        ELSE err = "Ok"

\* mA has been overridden and the cooldown runs: an override of the
\* unregistered mB fails with CooldownActive, and one with outcome 2 and a
\* single approver fails with InvalidOutcome.
C31_Witness ==
    /\ Len(events) >= 1 /\ IsOverrideEvent(LastEvent)
    /\ InCooldown /\ UnknownMarket("mB")
    /\ emergency_override_err(<<"A1", "A2">>, "mB", 0, AllAuth) = "CooldownActive"
    /\ BadOutcome(2) /\ TooFewApprovers(<<"A1">>)
    /\ emergency_override_err(<<"A1">>, "mB", 2, AllAuth) = "InvalidOutcome"

\* The log holds a registration of m after an attestation on m.
ReRegisteredAfterVote(m) ==
    \E i, j \in 1..Len(events) :
        /\ i < j
        /\ IsAttestEvent(events[i]) /\ events[i].data[1] = m
        /\ events[j].topic = "market_registered" /\ events[j].data[1] = m

\* C32: for every market that was not registered again after its first
\* attestation, get_attestation_counts(m) equals the (yes, no) counts
\* re-derived from m's voter list and stored votes, in every reachable state.
C32_CountersMatchVotes ==
    \A m \in Market :
        ~ReRegisteredAfterVote(m) =>
            get_attestation_counts(m) = <<YesVotes(m), NoVotes(m)>>

\* Two oracles have voted YES on mA, which was registered once: the counters
\* read (2, 0) and the voter list holds both.
C32_Witness ==
    /\ ~ReRegisteredAfterVote("mA")
    /\ Len(VoterList("mA")) = 2
    /\ get_attestation_counts("mA") = <<2, 0>>
    /\ IsAttestEvent(LastEvent)

\* C33: in every reachable state and for every market m, the voter list of m
\* holds no identity twice; an identity is in it exactly when a vote and an
\* attestation record exist for (m, identity), and the record's outcome is
\* the stored vote; the list only grows, by one identity appended at its end.
C33_VoterListCoherent ==
    /\ [](\A m \in Market :
             /\ \A i, j \in 1..Len(VoterList(m)) :
                    i # j => VoterList(m)[i] # VoterList(m)[j]
             /\ \A o \in Addr :
                    /\ (o \in Range(VoterList(m))) <=> IsSome(vote[m][o])
                    /\ IsSome(vote[m][o]) <=> IsSome(attestation[m][o])
                    /\ IsSome(vote[m][o]) =>
                           Unwrap(attestation[m][o]).outcome = Unwrap(vote[m][o]))
    /\ [][\A m \in Market :
             \/ VoterList(m)' = VoterList(m)
             \/ /\ Len(VoterList(m)') = Len(VoterList(m)) + 1
                /\ SubSeq(VoterList(m)', 1, Len(VoterList(m))) = VoterList(m)]_vars

\* A2 voted NO on mA and then A3 voted YES: the list is <<A2, A3>> and each
\* has its vote and its record.
C33_Witness ==
    /\ VoterList("mA") = <<"A2", "A3">>
    /\ vote["mA"] = [o \in Addr |-> IF o = "A2" THEN Some(0)
                                   ELSE IF o = "A3" THEN Some(1) ELSE None]
    /\ Unwrap(attestation["mA"]["A3"]).outcome = 1
    /\ LastEvent = Event("AttestationSubmitted", <<"mA", "A3", 1>>)

\* C34: override state is coherent in every reachable state and for every
\* market m: get_consensus_result(m) has a value exactly when
\* is_manual_override(m) is true, exactly when get_override_record(m) is
\* present; then the result is the record's forced_outcome, the record's
\* market id is m and its forced_outcome is 0 or 1.
C34_OverrideStateCoherent ==
    \A m \in Market :
        /\ IsSome(get_consensus_result(m)) <=> is_manual_override(m)
        /\ is_manual_override(m) <=> IsSome(get_override_record(m))
        /\ IsSome(get_override_record(m)) =>
               LET record == Unwrap(get_override_record(m)) IN
               /\ get_consensus_result(m) = Some(record.forced_outcome)
               /\ record.market_id = m
               /\ record.forced_outcome \in {0, 1}

\* mA has been overridden twice, to 0 and then to 1, and mB never: mA has
\* result 1, flag and record, mB has none of the three.
C34_Witness ==
    /\ Len(events) = 2
    /\ IsOverrideEvent(events[1]) /\ events[1].data[1] = "mA" /\ events[1].data[2] = 0
    /\ IsOverrideEvent(events[2]) /\ events[2].data[1] = "mA" /\ events[2].data[2] = 1
    /\ get_consensus_result("mA") = Some(1)
    /\ is_manual_override("mA") /\ IsSome(get_override_record("mA"))
    /\ get_consensus_result("mB") = None
    /\ ~is_manual_override("mB") /\ get_override_record("mB") = None

\* The timestamp of the most recent override on record, 0 when there is none.
LatestRecordTime == IF RecordTimes = {} THEN 0 ELSE Max(RecordTimes)

\* C35: in every reachable state last_override_time is 0 if no override has
\* succeeded and otherwise the timestamp of the most recent successful
\* override, the maximum over the override records; it never decreases and
\* never exceeds the current time.
C35_LastOverrideTime ==
    /\ [](/\ get_last_override_time = LatestRecordTime
          /\ get_last_override_time <= now)
    /\ [][get_last_override_time' >= get_last_override_time]_vars

\* C36: organic consensus is final once reached.  When check_consensus(m)
\* returns (true, o), it returns the same pair after every further successful
\* submit_attestation on m.
C36_ConsensusFinal ==
    [][AttestStep =>
          \A m \in Market : m = CallOf[1] =>
              (check_consensus(m)[1] => check_consensus(m)' = check_consensus(m))]_vars

\* C37: initialization takes effect once.  In a contract that has been
\* initialized, no initialize call changes the administrator, the admin
\* signers, the required signatures, the cooldown, last_override_time, the
\* consensus threshold or the oracle count; it lifts no active cooldown and
\* leaves the oracle count at the number of registered oracles or above.
C37_InitializeOnce ==
    [][(IsSome(admin) /\ StepOf("oracle_initialized")) =>
          /\ UNCHANGED <<admin, admin_signers, required_sigs, override_cooldown,
                         last_override, required_consensus, oracle_count>>
          /\ InCooldown => InCooldown'
          /\ OracleCount >= Cardinality(RegisteredOracles)
                 => OracleCount' >= Cardinality(RegisteredOracles')]_vars

\* The larger of two numbers.
Larger(a, b) == IF a >= b THEN a ELSE b

AttestationStateOf(m) ==
    <<mkt_res_time[m], attest_yes[m], attest_no[m], vote[m], attestation[m], voters[m]>>
OverrideStateOf(m) == <<consensus_result[m], manual_override[m], override_record[m]>>

\* C39: a successful emergency_override of m changes only override state: the
\* votes, attestation records, voter lists, tally counters and resolution
\* times of all markets, the registry and the admin configuration stay, and
\* so does the override state of the other markets; check_consensus returns
\* for every market what it returned before.  A successful
\* submit_attestation on m changes nothing of another market and nothing in
\* the registry, the admin configuration or the override state.
C39_Frames ==
    /\ [][OverrideStep =>
             /\ UNCHANGED <<ledger, registry, adminCfg>>
             /\ \A m \in Market :
                    /\ check_consensus(m)' = check_consensus(m)
                    /\ m # CallOf[1] => OverrideStateOf(m)' = OverrideStateOf(m)]_vars
    /\ [][AttestStep =>
             /\ UNCHANGED <<registry, adminCfg, overrideState>>
             /\ \A m \in Market :
                    m # CallOf[1] => AttestationStateOf(m)' = AttestationStateOf(m)]_vars

\* A3 has voted YES on mA, which is organic consensus at threshold 1, and mA
\* has then been overridden to NO: check_consensus still reports (true, 1),
\* the vote and the counters are there, and the consensus result is 0.
C39_Witness ==
    /\ Len(events) = 2
    /\ events[1] = Event("AttestationSubmitted", <<"mA", "A3", 1>>)
    /\ IsOverrideEvent(events[2]) /\ events[2].data[1] = "mA" /\ events[2].data[2] = 0
    /\ vote["mA"]["A3"] = Some(1)
    /\ get_attestation_counts("mA") = <<1, 0>>
    /\ check_consensus("mA") = <<TRUE, 1>>
    /\ get_consensus_result("mA") = Some(0)
====
